---- MODULE Spec2Model ----
(***************************************************************************)
(* A model of the SmartCommerce Python services:                           *)
(*   - FraudDetectionService (fraud-detection/app/services/fraud_detector) *)
(*   - PriceOptimizerService (price-optimization/app/services/             *)
(*     price_optimizer)                                                    *)
(*                                                                         *)
(* Numbers.  The code computes with Python floats.  The model computes     *)
(* with exact rationals held as scaled integers:                           *)
(*   - a component score or severity s in [0,1] is the integer 100*s       *)
(*     (ScoreOne = 1.0);                                                   *)
(*   - the ensemble fraud score is held in units of 1/FinalOne, where      *)
(*     FinalOne = ScoreOne * WeightOne * MeanDenom, so that the weighted   *)
(*     means of the code are exact integers.                               *)
(* Floating-point rounding error of the sums is not modelled.              *)
(***************************************************************************)
EXTENDS Integers, Sequences, FiniteSets, TLC

VARIABLES
    fraud,        \* the FraudDetectionService object (its instance fields)
    hash_seed,    \* the interpreter's string-hash seed, fixed per process
    fraud_call,   \* the call of analyze_transaction in progress / returned
    pricer,       \* the PriceOptimizerService object (its instance fields)
    price_call,   \* the call of optimize_product_price in progress / returned
    bulk,         \* the bulk call in progress / returned
    search,       \* the search service, its backends and its call
    health,       \* the search service's dependencies and health routes
    event,        \* an event of the shared contracts on its round trip
    reco,         \* the recommendation engine's cache and its calls
    cf,           \* the collaborative filtering engine and its call
    gather,       \* one bulk call followed task by task
    ensemble      \* two analyses of one transaction and their scores

\* The variables of the services modelled after the bulk calls.
other_services == <<search, health, event, reco, cf, gather, ensemble>>

----------------------------------------------------------------------------
(* Generic helpers                                                         *)

Min(a, b) == IF a <= b THEN a ELSE b

Max(a, b) == IF a >= b THEN a ELSE b

Abs(a) == IF a < 0 THEN -a ELSE a

RECURSIVE SumSeq(_)
SumSeq(s) == IF s = <<>> THEN 0 ELSE Head(s) + SumSeq(Tail(s))

----------------------------------------------------------------------------
(* Scales                                                                  *)

\* 1.0 of a component score / severity.
ScoreOne == 100

\* 1.0 of an ensemble weight (the weights are 0.3, 0.2, 0.2, 0.1, 0.1, 0.05, 0.05).
WeightOne == 100

\* A common denominator of the means np.mean takes: over 3 model scores and
\* over 1..8 rule indicators (lcm(1..8) = 840).
MeanDenom == 840

\* 1.0 of the ensemble fraud score.
FinalOne == ScoreOne * WeightOne * MeanDenom

\* A literal such as 0.8 of the code, given in hundredths, in final-score units.
Lit(hundredths) == hundredths * WeightOne * MeanDenom

----------------------------------------------------------------------------
(* FraudDetectionService: construction and load_models                     *)

SupervisedModels == <<"random_forest", "xgboost", "lightgbm">>

AnomalyModels == <<"isolation_forest", "autoencoder", "local_outlier">>

ModelNames == {SupervisedModels[i] : i \in 1..3} \cup {AnomalyModels[i] : i \in 1..3}

\* self.thresholds of __init__.
RuleThresholds ==
    [ high_amount |-> 10000,
      velocity_transactions |-> 10,
      velocity_timeframe_hours |-> 1 ]

\* Scaler state: "unfitted", or the mean_ it was last fitted on (the model
\* keeps the first feature, float(transaction.amount), of the feature row).
Unfitted == -1

\* FraudDetectionService.__init__
FraudServiceInit ==
    [ models |-> [m \in {} |-> "default"],
      scalers |-> [m \in {} |-> Unfitted],
      encoders |-> {},
      thresholds |-> RuleThresholds,
      is_initialized |-> FALSE ]

\* The sets of models for which a pre-trained joblib file may exist on disk.
PretrainedChoices == { {}, ModelNames }

\* load_models: every configured model is constructed (unfitted), the
\* supervised ones get a StandardScaler, the encoders are created, and the
\* models with a pre-trained file are replaced by the loaded ones.
LoadedService(svc, pretrained) ==
    [ svc EXCEPT
        !.models = [m \in ModelNames |->
                       IF m \in pretrained THEN "pretrained" ELSE "default"],
        !.scalers = [m \in {SupervisedModels[i] : i \in 1..3} |-> Unfitted],
        !.encoders = {"country", "payment_type", "device_type", "merchant_category"},
        !.is_initialized = TRUE ]

----------------------------------------------------------------------------
(* Requests of analyze_transaction                                         *)
(*                                                                         *)
(* A request is a record of the fields of TransactionData, UserData,       *)
(* DeviceInfo and ContextData that the analysis reads, together with the   *)
(* values the request's random draws and model calls take (np.random.beta, *)
(* decision_function).  Optional fields use 0 for None where the code      *)
(* tests truthiness (None and 0 take the same branch); booleans are 0/1;   *)
(* countries are 0 (no address), 1 ("US"), 2 ("XX", a high-risk code).     *)

FreqNone == -1

FieldDomain ==
    [ amount      |-> {100, 20000, 50000},  \* transaction.amount (> 0)
      hourly      |-> {0, 12, 20},          \* hourly_transaction_count
      daily       |-> {0, 12},              \* daily_transaction_count
      daily_total |-> {0, 1000},            \* daily_amount_total
      avg_amount  |-> {0, 100},             \* user.average_transaction_amount
      freq        |-> {FreqNone, 1},        \* user.transaction_frequency
      age         |-> {-1, 0, 30},          \* user.account_age_days
      email       |-> {0, 1},               \* user.email_verified
      phone       |-> {0, 1},               \* user.phone_verified
      proxy       |-> {0, 1},               \* device.is_proxy
      fingerprint |-> {0, 1},               \* device.device_fingerprint (0: none)
      hour        |-> {3, 12},              \* transaction_time.hour
      reports     |-> {0, 2, 5},            \* user.previous_fraud_reports
      failed      |-> {0, 9, 10},           \* user.failed_login_attempts
      ttt         |-> {0, 5},               \* context.time_to_transaction
      pages       |-> {0, 1},               \* context.pages_visited
      intl        |-> {0, 1},               \* transaction.is_international
      billing     |-> {0, 1, 2},            \* billing_address country
      shipping    |-> {0, 1},               \* shipping_address country
      beta_rf     |-> {10, 60, 100},        \* np.random.beta draw, random_forest
      beta_xgb    |-> {10, 100},            \* np.random.beta draw, xgboost
      beta_lgbm   |-> {10, 100},            \* np.random.beta draw, lightgbm
      df_if       |-> {0, 70, -250},        \* decision_function, isolation_forest
      df_ae       |-> {0, 100},             \* decision_function, autoencoder
      df_lof      |-> {0, 100} ]            \* decision_function, local_outlier

Fields == DOMAIN FieldDomain

\* An unremarkable request: no rule fires, every score is low.
BenignRequest ==
    [ amount |-> 100, hourly |-> 0, daily |-> 0, daily_total |-> 0,
      avg_amount |-> 100, freq |-> 1, age |-> 30, email |-> 1, phone |-> 1,
      proxy |-> 0, fingerprint |-> 1, hour |-> 12, reports |-> 0, failed |-> 0,
      ttt |-> 0, pages |-> 0, intl |-> 0, billing |-> 1, shipping |-> 1,
      beta_rf |-> 10, beta_xgb |-> 10, beta_lgbm |-> 10,
      df_if |-> 0, df_ae |-> 0, df_lof |-> 0 ]

\* A request with high scores in which no rule reaches a severity above 0.9.
SevereRequest ==
    [ amount |-> 20000, hourly |-> 12, daily |-> 12, daily_total |-> 1000,
      avg_amount |-> 100, freq |-> 1, age |-> 0, email |-> 0, phone |-> 0,
      proxy |-> 1, fingerprint |-> 0, hour |-> 3, reports |-> 2, failed |-> 9,
      ttt |-> 5, pages |-> 1, intl |-> 1, billing |-> 2, shipping |-> 1,
      beta_rf |-> 100, beta_xgb |-> 100, beta_lgbm |-> 100,
      df_if |-> -250, df_ae |-> 100, df_lof |-> 100 ]

BaseRequests == {BenignRequest, SevereRequest}

\* The number of fields in which a request of the model may differ from
\* one of the base requests.
MaxVaried == 2

RECURSIVE Vary(_, _)
Vary(base, F) ==
    IF F = {} THEN {base}
    ELSE LET f == CHOOSE x \in F : TRUE
         IN  UNION { { [r EXCEPT ![f] = v] : v \in FieldDomain[f] }
                     : r \in Vary(base, F \ {f}) }

RECURSIVE FieldSets(_, _)
\* The subsets of S with at most n elements.
FieldSets(S, n) ==
    IF n = 0 \/ S = {} THEN {{}}
    ELSE LET f == CHOOSE x \in S : TRUE
         IN  FieldSets(S \ {f}, n) \cup { T \cup {f} : T \in FieldSets(S \ {f}, n - 1) }

Requests ==
    UNION { Vary(base, F) : base \in BaseRequests,
                            F \in FieldSets(Fields, MaxVaried) }

----------------------------------------------------------------------------
(* _apply_fraud_rules                                                      *)

Indicator(type, severity) == [type |-> type, severity |-> severity]

\* The indicator of one rule as a sequence: empty when the rule does not fire.
RuleHighAmount(svc, r) ==
    IF r.amount > svc.thresholds.high_amount
    THEN << Indicator("high_amount", Min((r.amount * ScoreOne) \div 50000, ScoreOne)) >>
    ELSE << >>

RuleVelocity(svc, r) ==
    IF r.hourly # 0 /\ r.hourly > svc.thresholds.velocity_transactions
    THEN << Indicator("velocity_abuse", Min((r.hourly * ScoreOne) \div 20, ScoreOne)) >>
    ELSE << >>

RuleNewAccount(r) ==
    IF r.age < 1 THEN << Indicator("new_account", 70) >> ELSE << >>

RuleUnverified(r) ==
    IF r.email = 0 \/ r.phone = 0
    THEN << Indicator("unverified_account", 50) >> ELSE << >>

RuleProxy(r) ==
    IF r.proxy = 1 THEN << Indicator("proxy_usage", 60) >> ELSE << >>

RuleUnusualTime(r) ==
    IF r.hour < 6 \/ r.hour > 23
    THEN << Indicator("unusual_time", 40) >> ELSE << >>

RuleFraudHistory(r) ==
    IF r.reports > 0
    THEN << Indicator("fraud_history", Min((r.reports * ScoreOne) \div 5, ScoreOne)) >>
    ELSE << >>

RuleFailedLogins(r) ==
    IF r.failed > 3
    THEN << Indicator("failed_logins", Min((r.failed * ScoreOne) \div 10, ScoreOne)) >>
    ELSE << >>

\* _apply_fraud_rules: the indicators of the rules that fire, in rule order.
apply_fraud_rules(svc, r) ==
    RuleHighAmount(svc, r) \o RuleVelocity(svc, r) \o RuleNewAccount(r)
    \o RuleUnverified(r) \o RuleProxy(r) \o RuleUnusualTime(r)
    \o RuleFraudHistory(r) \o RuleFailedLogins(r)

----------------------------------------------------------------------------
(* _prepare_transaction_features, _run_ml_models, _detect_anomalies        *)

\* Whether the feature row is finite: np.log1p(user.account_age_days) is
\* -inf for account_age_days = -1, and the scalers and the fitted models
\* reject a row holding an infinity (ValueError).
FeaturesFinite(r) == r.age # -1

\* The first feature of the row, float(transaction.amount).
FirstFeature(r) == r.amount

BetaDraw(r, m) ==
    CASE m = "random_forest" -> r.beta_rf
      [] m = "xgboost"       -> r.beta_xgb
      [] m = "lightgbm"      -> r.beta_lgbm

DecisionFunction(r, m) ==
    CASE m = "isolation_forest" -> r.df_if
      [] m = "autoencoder"      -> r.df_ae
      [] m = "local_outlier"    -> r.df_lof

\* One iteration of the loop of _run_ml_models: whether its try block raises
\* (KeyError for a model that was never loaded, ValueError from fit_transform).
MlRaises(svc, r, m) ==
    \/ m \notin DOMAIN svc.models
    \/ (m \in DOMAIN svc.scalers /\ ~FeaturesFinite(r))

\* _run_ml_models: the score of each supervised model (0.0 when its try
\* block raised, the mock np.random.beta(2, 8) draw otherwise).
run_ml_models(svc, r) ==
    [i \in 1..3 |-> IF MlRaises(svc, r, SupervisedModels[i])
                    THEN 0
                    ELSE BetaDraw(r, SupervisedModels[i])]

\* StandardScaler.fit_transform(features): the scaler is fitted anew on the
\* row of this request, whatever it held before.
FitTransformScaler(old, r) == FirstFeature(r)

\* The scalers after _run_ml_models.
ScalersAfter(svc, r) ==
    [m \in DOMAIN svc.scalers |->
        IF MlRaises(svc, r, m) THEN svc.scalers[m]
        ELSE FitTransformScaler(svc.scalers[m], r)]

\* One iteration of _detect_anomalies: decision_function raises for a model
\* that was never loaded (KeyError), for a default model, which is not
\* fitted (NotFittedError), and for a row with an infinity (ValueError).
AnomalyRaises(svc, r, m) ==
    \/ m \notin DOMAIN svc.models
    \/ svc.models[m] = "default"
    \/ ~FeaturesFinite(r)

\* _detect_anomalies as it would be without the abs() around the
\* decision_function value.
detect_anomalies_no_abs(svc, r) ==
    [i \in 1..3 |-> IF AnomalyRaises(svc, r, AnomalyModels[i])
                    THEN 0
                    ELSE Min(DecisionFunction(r, AnomalyModels[i]), ScoreOne)]

\* _detect_anomalies: min(abs(decision_function(features)[0]), 1.0), or 0.0.
detect_anomalies(svc, r) ==
    [i \in 1..3 |-> IF AnomalyRaises(svc, r, AnomalyModels[i])
                    THEN 0
                    ELSE Min(Abs(DecisionFunction(r, AnomalyModels[i])), ScoreOne)]

----------------------------------------------------------------------------
(* The four risk analyses                                                  *)

\* hash(device_hash) % 100 > 95: decided by the process's hash seed, which
\* the model holds as the set of fingerprints that hash above 95.
HighRiskDevice(seed, r) == r.fingerprint \in seed

\* _analyze_device_risk
analyze_device_risk(seed, r) ==
    Min( (IF r.fingerprint = 0 THEN 30 ELSE 0)
         + (IF r.proxy = 1 THEN 40 ELSE 0)
         + (IF HighRiskDevice(seed, r) THEN 50 ELSE 0),
         ScoreOne )

\* _analyze_behavioral_patterns
analyze_behavioral_patterns(r) ==
    Min( (IF r.ttt # 0
          THEN (IF r.ttt < 10 THEN 30 ELSE IF r.ttt > 3600 THEN 20 ELSE 0)
          ELSE 0)
         + (IF r.pages # 0
            THEN (IF r.pages < 2 THEN 20 ELSE IF r.pages > 50 THEN 10 ELSE 0)
            ELSE 0)
         + (IF r.avg_amount # 0
            \* amount_ratio = amount / average_transaction_amount (> 0 here)
            THEN (IF r.amount > 5 * r.avg_amount THEN 40
                  ELSE IF 10 * r.amount < r.avg_amount THEN 20 ELSE 0)
            ELSE 0),
         ScoreOne )

\* _analyze_velocity_patterns raises TypeError when it multiplies
\* average_transaction_amount by a transaction_frequency of None.
VelocityRaises(r) ==
    r.daily_total # 0 /\ r.avg_amount # 0 /\ r.freq = FreqNone

\* float(average_transaction_amount) * transaction_frequency or 1
VelocityDenominator(r) ==
    IF r.avg_amount * r.freq = 0 THEN 1 ELSE r.avg_amount * r.freq

\* _analyze_velocity_patterns (when it does not raise)
analyze_velocity_patterns(r) ==
    Min( (IF r.hourly # 0 /\ r.hourly > 5
          THEN Min((r.hourly * ScoreOne) \div 10, 50) ELSE 0)
         + (IF r.daily # 0 /\ r.daily > 10
            THEN Min((r.daily * ScoreOne) \div 20, 30) ELSE 0)
         + (IF r.daily_total # 0 /\ r.avg_amount # 0
               /\ r.daily_total > 3 * VelocityDenominator(r)
            THEN Min((r.daily_total * ScoreOne) \div (10 * VelocityDenominator(r)), 40)
            ELSE 0),
         ScoreOne )

\* _analyze_geographic_risk
analyze_geographic_risk(r) ==
    Min( (IF r.intl = 1 THEN 30 ELSE 0)
         + (IF r.billing # 0 /\ r.shipping # 0 /\ r.billing # r.shipping
            THEN 20 ELSE 0)
         + (IF r.billing = 2 THEN 40 ELSE 0),
         ScoreOne )

----------------------------------------------------------------------------
(* _calculate_ensemble_score                                               *)

\* The weights of _calculate_ensemble_score, in hundredths.
EnsembleWeights ==
    [ ml_models |-> 30, anomaly_detection |-> 20, rules |-> 20,
      device_risk |-> 10, behavioral_risk |-> 10,
      velocity_risk |-> 5, geographic_risk |-> 5 ]

Severities(inds) == [i \in 1..Len(inds) |-> inds[i].severity]

\* np.mean(values) * weight, in final-score units (exact: MeanDenom is a
\* multiple of every length that occurs).
WeightedMean(values, weight) ==
    (SumSeq(values) * weight * MeanDenom) \div Len(values)

\* The sum before the final clamp.
EnsembleSum(ml, an, rules, device, behavioral, velocity, geographic) ==
    (IF Len(ml) > 0 THEN WeightedMean(ml, EnsembleWeights.ml_models) ELSE 0)
    + (IF Len(an) > 0 THEN WeightedMean(an, EnsembleWeights.anomaly_detection) ELSE 0)
    + (IF Len(rules) > 0
       THEN WeightedMean(Severities(rules), EnsembleWeights.rules) ELSE 0)
    + device * EnsembleWeights.device_risk * MeanDenom
    + behavioral * EnsembleWeights.behavioral_risk * MeanDenom
    + velocity * EnsembleWeights.velocity_risk * MeanDenom
    + geographic * EnsembleWeights.geographic_risk * MeanDenom

\* _calculate_ensemble_score: min(final_score, 1.0)
calculate_ensemble_score(ml, an, rules, device, behavioral, velocity, geographic) ==
    Min(EnsembleSum(ml, an, rules, device, behavioral, velocity, geographic), FinalOne)

----------------------------------------------------------------------------
(* _make_fraud_decision                                                    *)

\* indicator['severity'] > 0.9
IsCritical(ind) == ind.severity * 10 > 9 * ScoreOne

critical_indicators(rules) == { i \in 1..Len(rules) : IsCritical(rules[i]) }

\* The score-based branch with the REVIEW and CHALLENGE results exchanged.
ScoreDecision_swapped(fraud_score) ==
    IF fraud_score >= Lit(80) THEN "DECLINE"
    ELSE IF fraud_score >= Lit(60) THEN "CHALLENGE"
    ELSE IF fraud_score >= Lit(40) THEN "REVIEW"
    ELSE "APPROVE"

\* The score-based branch of _make_fraud_decision.
ScoreDecision(fraud_score) ==
    IF fraud_score >= Lit(80) THEN "DECLINE"
    ELSE IF fraud_score >= Lit(60) THEN "REVIEW"
    ELSE IF fraud_score >= Lit(40) THEN "CHALLENGE"
    ELSE "APPROVE"

\* _make_fraud_decision as it would be without the critical-rule branch.
make_fraud_decision_score_only(fraud_score, rules) == ScoreDecision(fraud_score)

make_fraud_decision(fraud_score, rules) ==
    IF critical_indicators(rules) # {} THEN "DECLINE"
    ELSE ScoreDecision(fraud_score)

----------------------------------------------------------------------------
(* _generate_fraud_indicators                                              *)

\* The indicators of the scores above a threshold: a sequence over the
\* models, in dictionary (insertion) order.
RECURSIVE ScoreIndicators(_, _, _, _)
ScoreIndicators(prefix, names, scores, threshold) ==
    IF names = << >> THEN << >>
    ELSE (IF Head(scores) > threshold
          THEN << Indicator(prefix \o Head(names), Head(scores)) >>
          ELSE << >>)
         \o ScoreIndicators(prefix, Tail(names), Tail(scores), threshold)

RiskIndicator(type, risk) ==
    IF risk > 50 THEN << Indicator(type, risk) >> ELSE << >>

\* x goes behind every element that is at least as severe (list.sort is
\* stable, also with reverse=True).
RECURSIVE InsertBySeverity(_, _)
InsertBySeverity(sorted, x) ==
    IF sorted = << >> THEN << x >>
    ELSE IF Head(sorted).severity >= x.severity
         THEN << Head(sorted) >> \o InsertBySeverity(Tail(sorted), x)
         ELSE << x >> \o sorted

\* The sort as it would be without reverse=True: ascending severity.
RECURSIVE SortBySeverity_ascending(_)
SortBySeverity_ascending(inds) ==
    IF inds = << >> THEN << >>
    ELSE LET rest == SortBySeverity_ascending(SubSeq(inds, 1, Len(inds) - 1))
             x == inds[Len(inds)]
             before == SelectSeq(rest, LAMBDA y : y.severity <= x.severity)
             after == SelectSeq(rest, LAMBDA y : y.severity > x.severity)
         IN  before \o << x >> \o after

\* indicators.sort(key=lambda x: x.severity, reverse=True)
RECURSIVE SortBySeverity(_)
SortBySeverity(inds) ==
    IF inds = << >> THEN << >>
    ELSE InsertBySeverity(SortBySeverity(SubSeq(inds, 1, Len(inds) - 1)),
                          inds[Len(inds)])

\* The list before the sort.
CollectIndicators(rules, ml, an, device, behavioral) ==
    rules
    \o ScoreIndicators("ml_", SupervisedModels, ml, 50)
    \o ScoreIndicators("anomaly_", AnomalyModels, an, 60)
    \o RiskIndicator("device_risk", device)
    \o RiskIndicator("behavioral_risk", behavioral)

generate_fraud_indicators(rules, ml, an, device, behavioral) ==
    SortBySeverity(CollectIndicators(rules, ml, an, device, behavioral))

\* primary_indicator=indicators[0].indicator_type if indicators else None
PrimaryIndicator(indicators) ==
    IF indicators # << >> THEN indicators[1].type ELSE "None"

----------------------------------------------------------------------------
(* analyze_transaction                                                     *)

NoResult ==
    [ status |-> "none", fraud_score |-> 0, decision |-> "none",
      indicators |-> << >>, primary_indicator |-> "None" ]

Raised == [NoResult EXCEPT !.status = "raised"]

\* The FraudDetectionResult of a request, or Raised when a step raises.
analyze_transaction(svc, seed, r) ==
    LET rules       == apply_fraud_rules(svc, r)
        ml          == run_ml_models(svc, r)
        an          == detect_anomalies(svc, r)
        device      == analyze_device_risk(seed, r)
        behavioral  == analyze_behavioral_patterns(r)
        velocity    == analyze_velocity_patterns(r)
        geographic  == analyze_geographic_risk(r)
        fraud_score == calculate_ensemble_score(ml, an, rules, device,
                                                behavioral, velocity, geographic)
        indicators  == generate_fraud_indicators(rules, ml, an, device, behavioral)
    IN  IF VelocityRaises(r) THEN Raised
        ELSE [ status |-> "ok",
               fraud_score |-> fraud_score,
               decision |-> make_fraud_decision(fraud_score, rules),
               indicators |-> indicators,
               primary_indicator |-> PrimaryIndicator(indicators) ]

\* The service object after the call: _run_ml_models has re-fitted the
\* scalers (it runs before the step that can raise).
ServiceAfterAnalyze(svc, r) == [svc EXCEPT !.scalers = ScalersAfter(svc, r)]

----------------------------------------------------------------------------
(* The fraud service as a state machine                                    *)

HashSeeds == { {}, {0, 1} }

IdleCall == [pc |-> "idle", req |-> BenignRequest, result |-> NoResult]

\* The process after FraudDetectionService() has been constructed.
FraudStart(seeds) ==
    /\ fraud = FraudServiceInit
    /\ hash_seed \in seeds
    /\ fraud_call = IdleCall

\* What a step of the fraud service leaves alone.
FraudFrame == UNCHANGED <<pricer, price_call, bulk, other_services>>

\* The startup of the application: load_models, once, before any request.
LoadModels ==
    /\ ~fraud.is_initialized
    /\ \E pretrained \in PretrainedChoices :
          fraud' = LoadedService(fraud, pretrained)
    /\ UNCHANGED <<hash_seed, fraud_call>>
    /\ FraudFrame

\* One call of analyze_transaction, from its entry to its return or raise.
AnalyzeTransaction ==
    /\ fraud.is_initialized
    /\ fraud_call.pc = "idle"
    /\ \E r \in Requests :
          /\ fraud_call' = [pc |-> "done", req |-> r,
                            result |-> analyze_transaction(fraud, hash_seed, r)]
          /\ fraud' = ServiceAfterAnalyze(fraud, r)
    /\ UNCHANGED hash_seed
    /\ FraudFrame

\* The caller has taken the result; the service waits for the next request.
FraudReturn ==
    /\ fraud_call.pc = "done"
    /\ fraud_call' = IdleCall
    /\ UNCHANGED <<fraud, hash_seed>>
    /\ FraudFrame

FraudNext == LoadModels \/ AnalyzeTransaction \/ FraudReturn


----------------------------------------------------------------------------
(* PriceOptimizerService                                                   *)
(*                                                                         *)
(* Prices.  A request gives current_price, cost and the constraint prices  *)
(* in whole cents.  Computed prices are exact rationals held in units of   *)
(* 1/CentUnits of a cent, so that the mean of up to five predictions, the  *)
(* factor 1.05 and the factor 0.2 are exact.                               *)

CentUnits == 60

\* settings.MIN_PROFIT_MARGIN and settings.MAX_PRICE_CHANGE_PERCENT, in percent.
MIN_PROFIT_MARGIN == 5

MAX_PRICE_CHANGE_PERCENT == 20

\* self.model_configs, in dictionary order.
PriceModels ==
    <<"random_forest", "xgboost", "lightgbm", "gradient_boosting", "elastic_net">>

PriceModelNames == {PriceModels[i] : i \in 1..Len(PriceModels)}

\* A model of the service: a default one is not fitted; a pre-trained one
\* predicts bias + slope * x from the scaled feature x (prices in cents).
DefaultModel == [kind |-> "default", bias |-> 0, slope |-> 0]

Pretrained(bias, slope) == [kind |-> "pretrained", bias |-> bias, slope |-> slope]

\* PriceOptimizerService.__init__
PricerInit ==
    [ models |-> [m \in {} |-> DefaultModel],
      scalers |-> [m \in {} |-> Unfitted],
      is_initialized |-> FALSE ]

\* What MODEL_STORAGE_PATH may hold: the pre-trained models by name.
NoFiles == [m \in {} |-> DefaultModel]

OneFile == [m \in {"random_forest"} |-> Pretrained(1050, 1)]

AllFiles ==
    [m \in PriceModelNames |->
        CASE m = "random_forest"     -> Pretrained(500, 1)
          [] m = "xgboost"           -> Pretrained(800, 2)
          [] m = "lightgbm"          -> Pretrained(1000, 0)
          [] m = "gradient_boosting" -> Pretrained(1201, 1)
          [] m = "elastic_net"       -> Pretrained(3000, 1)]

ModelStorage == {NoFiles, OneFile, AllFiles}

\* load_models: a default model and a fresh scaler for every configured
\* name; then the models (and scalers) found in storage replace them.
LoadedPricer(svc, files) ==
    [ svc EXCEPT
        !.models = [m \in PriceModelNames |->
                       IF m \in DOMAIN files THEN files[m] ELSE DefaultModel],
        !.scalers = [m \in PriceModelNames |-> Unfitted],
        !.is_initialized = TRUE ]

----------------------------------------------------------------------------
(* Requests of optimize_product_price                                      *)

\* PricingConstraints; 0 stands for None (the code tests truthiness, so
\* None and 0 take the same branch).  min_margin is in percent,
\* round_to_nearest in cents.
NoConstraints ==
    [ min_price |-> 0, max_price |-> 0, min_margin |-> 0,
      round_to_nearest |-> 0, psychological_pricing |-> FALSE ]

\* The constraints of the model's requests; a request that sets both
\* min_price and max_price sets min_price <= max_price.
ConstraintChoices ==
    { c \in [ min_price : {0, 900, 1500},
              max_price : {0, 700, 1100},
              min_margin : {0, 20, 50, 100},
              round_to_nearest : {0, 5, 100},
              psychological_pricing : BOOLEAN ] :
        c.min_price = 0 \/ c.max_price = 0 \/ c.min_price <= c.max_price }

PriceRequests ==
    [ current_price : {0, 103, 1000, 2000},
      cost : {50, 990, 1900},
      inventory_level : {-1, 10},
      constraints : ConstraintChoices ]

\* The validators of PriceOptimizationRequest: positive price and cost,
\* and cost below the current price.  ProductInfo has no validator.
RequestValid(req) ==
    /\ req.current_price > 0
    /\ req.cost > 0
    /\ req.cost < req.current_price

----------------------------------------------------------------------------
(* _prepare_features and _get_ensemble_prediction                          *)

\* np.log1p(inventory_level) is -inf for an inventory_level of -1, and
\* fit_transform rejects a row holding an infinity (ValueError).
PriceFeaturesFinite(req) == req.inventory_level # -1

\* The first feature of the row: current_price.
PriceFirstFeature(req) == req.current_price

\* What the same line would do with transform() in place of
\* fit_transform(): the scaler keeps the mean of an earlier fit.
Transform_only(old_mean, x) ==
    IF old_mean = Unfitted THEN [mean |-> x, scaled |-> x - x]
    ELSE [mean |-> old_mean, scaled |-> x - old_mean]

\* StandardScaler.fit_transform(features) on the single row of the
\* request: the scaler is fitted on that row (mean_ = the row), and the
\* scaled row is row - mean_ = 0.
FitTransform(old_mean, x) == [mean |-> x, scaled |-> x - x]

\* One iteration of the loop of _get_ensemble_prediction: whether its try
\* block raises (ValueError from the scaler, NotFittedError from predict).
PredictRaises(svc, req, m) ==
    \/ ~PriceFeaturesFinite(req)
    \/ svc.models[m].kind = "default"

\* model.predict(scaled_features)[0], in cents.
Predict(model, scaled) == model.bias + model.slope * scaled

\* _get_ensemble_prediction: the predicted prices (in cents) of the models
\* whose iteration did not raise, in dictionary order.
RECURSIVE PredictionsFrom(_, _, _)
PredictionsFrom(svc, req, i) ==
    IF i > Len(PriceModels) \/ PriceModels[i] \notin DOMAIN svc.models
    THEN << >>
    ELSE LET m == PriceModels[i]
         IN  (IF PredictRaises(svc, req, m) THEN << >>
              ELSE << Predict(svc.models[m],
                              FitTransform(svc.scalers[m],
                                           PriceFirstFeature(req)).scaled) >>)
             \o PredictionsFrom(svc, req, i + 1)

get_ensemble_prediction(svc, req) == PredictionsFrom(svc, req, 1)

\* The scalers after _get_ensemble_prediction: fit_transform runs first in
\* each iteration, and fits unless the row is rejected.
PriceScalersAfter(svc, req) ==
    [m \in DOMAIN svc.scalers |->
        IF ~PriceFeaturesFinite(req) THEN svc.scalers[m]
        ELSE FitTransform(svc.scalers[m], PriceFirstFeature(req)).mean]

----------------------------------------------------------------------------
(* _apply_business_rules                                                   *)

\* The integer nearest to n / d (d > 0), ties to the even one: Python's
\* round().
RoundHalfEven(n, d) ==
    LET q == n \div d
        r == n % d
    IN  IF 2 * r < d THEN q
        ELSE IF 2 * r > d THEN q + 1
        ELSE IF q % 2 = 0 THEN q ELSE q + 1

\* round(price, 2): to whole cents.
RoundCents(price) == RoundHalfEven(price, CentUnits) * CentUnits

\* sum(p.price * p.confidence) / total_weight with every confidence 0.8:
\* the mean of the predictions.
WeightedPrice(predictions) ==
    (SumSeq(predictions) * CentUnits) \div Len(predictions)

\* cost * (1 + settings.MIN_PROFIT_MARGIN)
MinPrice(cost) == (cost * CentUnits * (100 + MIN_PROFIT_MARGIN)) \div 100

\* current_price * settings.MAX_PRICE_CHANGE_PERCENT
MaxPriceChange(current_price) ==
    (current_price * CentUnits * MAX_PRICE_CHANGE_PERCENT) \div 100

\* The default constraints without their last line, the upper limit.
DefaultConstraints_no_upper_limit(weighted_price, current_price, cost) ==
    Max(current_price * CentUnits - MaxPriceChange(current_price),
        Max(MinPrice(cost), weighted_price))

\* The default constraints without their first line, the margin floor.
DefaultConstraints_no_floor(weighted_price, current_price, cost) ==
    Min(current_price * CentUnits + MaxPriceChange(current_price),
        Max(current_price * CentUnits - MaxPriceChange(current_price),
            weighted_price))

\* The three lines under "Default constraints".
DefaultConstraints(weighted_price, current_price, cost) ==
    LET current == current_price * CentUnits
        change == MaxPriceChange(current_price)
    IN  Min(current + change,
            Max(current - change,
                Max(MinPrice(cost), weighted_price)))

\* The block under "Apply user-defined constraints", one line at a time.
ApplyMinPrice(c, price) ==
    IF c.min_price # 0 THEN Max(c.min_price * CentUnits, price) ELSE price

ApplyMaxPrice(c, price) ==
    IF c.max_price # 0 THEN Min(c.max_price * CentUnits, price) ELSE price

\* cost / (1 - constraints.min_margin), for a margin below 100 percent.
ApplyMinMargin(c, cost, price) ==
    IF c.min_margin # 0 /\ c.min_margin < 100
    THEN Max((cost * CentUnits * 100) \div (100 - c.min_margin), price)
    ELSE price

\* round(optimized_price / round_to_nearest) * round_to_nearest
ApplyRoundToNearest(c, price) ==
    IF c.round_to_nearest # 0
    THEN RoundHalfEven(price, c.round_to_nearest * CentUnits)
            * c.round_to_nearest * CentUnits
    ELSE price

\* round(optimized_price - 0.01, 2)
ApplyPsychological(c, price) ==
    IF c.psychological_pricing THEN RoundCents(price - CentUnits) ELSE price

UserConstraints(c, cost, price) ==
    ApplyPsychological(c,
        ApplyRoundToNearest(c,
            ApplyMinMargin(c, cost,
                ApplyMaxPrice(c,
                    ApplyMinPrice(c, price)))))

\* cost / (1 - 1.0) raises ZeroDivisionError.
BusinessRulesRaise(predictions, c) ==
    predictions # << >> /\ c.min_margin = 100

\* _apply_business_rules (when it does not raise), in price units.
apply_business_rules(predictions, current_price, cost, c) ==
    IF predictions = << >> THEN current_price * CentUnits
    ELSE RoundCents(
            UserConstraints(c, cost,
                DefaultConstraints(WeightedPrice(predictions), current_price, cost)))

----------------------------------------------------------------------------
(* optimize_product_price                                                  *)

NoPrice == [status |-> "none", recommended_price |-> 0, predictions |-> 0]

PriceRaised == [NoPrice EXCEPT !.status = "raised"]

\* The response of a request (its recommended price, and how many model
\* predictions it rests on), or PriceRaised: _apply_business_rules can
\* raise, and a current_price of 0 raises in _calculate_impact
\* (ZeroDivisionError) or _generate_revenue_projections (ValueError).
optimize_product_price(svc, req) ==
    LET predictions == get_ensemble_prediction(svc, req)
    IN  IF BusinessRulesRaise(predictions, req.constraints)
           \/ req.current_price = 0
        THEN PriceRaised
        ELSE [ status |-> "ok",
               recommended_price |->
                   apply_business_rules(predictions, req.current_price,
                                        req.cost, req.constraints),
               predictions |-> Len(predictions) ]

PricerAfterOptimize(svc, req) ==
    [svc EXCEPT !.scalers = PriceScalersAfter(svc, req)]

----------------------------------------------------------------------------
(* The price service as a state machine                                    *)

IdlePriceCall ==
    [ pc |-> "idle",
      req |-> [current_price |-> 0, cost |-> 0, inventory_level |-> 0,
               constraints |-> NoConstraints],
      result |-> NoPrice ]

\* The process after PriceOptimizerService() has been constructed.
PriceStart ==
    /\ pricer = PricerInit
    /\ price_call = IdlePriceCall

\* What a step of the price service leaves alone.
PriceFrame == UNCHANGED <<fraud, hash_seed, fraud_call, bulk, other_services>>

\* The startup of the application: load_models, once, before any request.
LoadPriceModels ==
    /\ ~pricer.is_initialized
    /\ \E files \in ModelStorage : pricer' = LoadedPricer(pricer, files)
    /\ UNCHANGED price_call
    /\ PriceFrame

\* One call of optimize_product_price, from its entry to its return or raise.
OptimizeProductPrice ==
    /\ pricer.is_initialized
    /\ price_call.pc = "idle"
    /\ \E req \in PriceRequests :
          /\ price_call' = [pc |-> "done", req |-> req,
                            result |-> optimize_product_price(pricer, req)]
          /\ pricer' = PricerAfterOptimize(pricer, req)
    /\ PriceFrame

\* The caller has taken the response.
PriceReturn ==
    /\ price_call.pc = "done"
    /\ price_call' = IdlePriceCall
    /\ UNCHANGED pricer
    /\ PriceFrame

PriceNext == LoadPriceModels \/ OptimizeProductPrice \/ PriceReturn

----------------------------------------------------------------------------
(* bulk_optimize_prices and bulk_analyze_transactions                      *)
(*                                                                         *)
(* A bulk call walks its list in batches; the tasks of a batch are the     *)
(* per-item calls, gathered with return_exceptions=True, and after the     *)
(* gather the results that are not exceptions are stored in a dictionary   *)
(* under the item's id.  The per-item coroutines never suspend, so the     *)
(* event loop runs the tasks of a batch one after the other, in order.     *)

\* batch_size of bulk_optimize_prices
PriceBatchSize == 10

\* batch_size of bulk_analyze_transactions
FraudBatchSize == 20

\* How many items the longest list of the model has beyond one full batch.
ExtraItems == 2

\* How many items of a list may be items whose own call raises.
MaxRaising == 2

\* The lengths of the lists of the model (no batch, one batch, two
\* batches), and the positions at which a list may hold a raising item:
\* the first and the last item of the first batch, the first and the last
\* item of the second.
Lengths(size) == {0, 1, size + 1, size + ExtraItems}

Marks(size) == {1, size, size + 1, size + ExtraItems}

\* Two items of a list may carry the same id: the last item of the first
\* batch and the first of the second.  <<0, 0>> stands for a list without
\* duplicate ids.
DuplicatePairs(size) == { <<0, 0>>, <<size, size + 1>> }

\* A list of n items: item j has id j (or the id of its duplicate) and
\* carries the raising request at the positions of `raising`, else one of
\* the two good requests in turn.
ItemList(n, raising, dup, good, bad) ==
    [ j \in 1..n |->
        [ id  |-> IF j = dup[2] THEN dup[1] ELSE j,
          req |-> IF j \in raising THEN bad ELSE good[1 + (j % 2)] ] ]

ItemLists(size, good, bad) ==
    { ItemList(n, raising, dup, good, bad) :
        n \in Lengths(size),
        raising \in FieldSets(Marks(size), MaxRaising),
        dup \in DuplicatePairs(size) }

\* ProductInfo has no validator: a product may have a current_price of 0,
\* for which optimize_product_price raises.
GoodProducts ==
    << [current_price |-> 1000, cost |-> 50, inventory_level |-> 10,
        constraints |-> NoConstraints],
       [current_price |-> 2000, cost |-> 990, inventory_level |-> 10,
        constraints |-> [NoConstraints EXCEPT !.psychological_pricing = TRUE]] >>

RaisingProduct ==
    [current_price |-> 0, cost |-> 50, inventory_level |-> 10,
     constraints |-> NoConstraints]

ProductLists == ItemLists(PriceBatchSize, GoodProducts, RaisingProduct)

GoodTransactions == <<BenignRequest, SevereRequest>>

\* A transaction of a user with a daily total and no transaction_frequency:
\* _analyze_velocity_patterns raises.
RaisingTransaction ==
    [BenignRequest EXCEPT !.daily_total = 1000, !.freq = FreqNone]

TransactionLists ==
    ItemLists(FraudBatchSize, GoodTransactions, RaisingTransaction)

\* What the items of `transactions` are: dictionaries, as the signature of
\* bulk_analyze_transactions declares, or TransactionAnalysisRequest
\* objects, which is what the endpoint /api/v1/bulk-analyze passes
\* (request.transactions).
ItemShapes == {"dict", "model"}

\* The service object after the first n tasks of a batch have run (the
\* tasks of a batch run in order).
RECURSIVE PricerAfterTasks(_, _, _)
PricerAfterTasks(svc, batch, n) ==
    IF n = 0 THEN svc
    ELSE PricerAfterOptimize(PricerAfterTasks(svc, batch, n - 1), batch[n].req)

RECURSIVE ServiceAfterTasks(_, _, _)
ServiceAfterTasks(svc, batch, n) ==
    IF n = 0 THEN svc
    ELSE ServiceAfterAnalyze(ServiceAfterTasks(svc, batch, n - 1), batch[n].req)

\* batch_results of asyncio.gather(*batch_tasks, return_exceptions=True):
\* the result, or the exception, of each of the first n tasks.
RECURSIVE GatherPrices(_, _, _)
GatherPrices(svc, batch, n) ==
    IF n = 0 THEN << >>
    ELSE Append(GatherPrices(svc, batch, n - 1),
                optimize_product_price(PricerAfterTasks(svc, batch, n - 1),
                                       batch[n].req))

RECURSIVE GatherAnalyses(_, _, _, _)
GatherAnalyses(svc, seed, batch, n) ==
    IF n = 0 THEN << >>
    ELSE Append(GatherAnalyses(svc, seed, batch, n - 1),
                analyze_transaction(ServiceAfterTasks(svc, batch, n - 1), seed,
                                    batch[n].req))

\* _score_to_risk_level
score_to_risk_level(score) ==
    IF score >= Lit(80) THEN "critical"
    ELSE IF score >= Lit(60) THEN "high"
    ELSE IF score >= Lit(30) THEN "medium"
    ELSE "low"

\* TransactionAnalysisResponse.validate_score_range: building the response
\* raises ValueError for a fraud_score outside [0, 1].  (The
\* confidence_score, a mean of values in [0, 1], always passes.)
ResponseRaises(result) ==
    result.status = "ok"
    /\ ~(0 <= result.fraud_score /\ result.fraud_score <= FinalOne)

\* The TransactionAnalysisResponse built from a FraudDetectionResult.
Response(id, result) ==
    [ transaction_id |-> id,
      fraud_score |-> result.fraud_score,
      risk_level |-> score_to_risk_level(result.fraud_score),
      decision |-> result.decision,
      indicators |-> result.indicators ]

\* results[id] = value
Store(results, id, value) ==
    [k \in DOMAIN results \cup {id} |-> IF k = id THEN value ELSE results[k]]

\* The loop over batch_results of bulk_optimize_prices.
RECURSIVE StorePrices(_, _, _)
StorePrices(results, batch, batch_results) ==
    IF batch = << >> THEN results
    ELSE StorePrices(IF Head(batch_results).status = "raised" THEN results
                     ELSE Store(results, Head(batch).id, Head(batch_results)),
                     Tail(batch), Tail(batch_results))

\* The loop over batch_results of bulk_analyze_transactions.
RECURSIVE StoreResponses(_, _, _)
StoreResponses(results, batch, batch_results) ==
    IF batch = << >> THEN results
    ELSE StoreResponses(IF Head(batch_results).status = "raised" THEN results
                        ELSE Store(results, Head(batch).id,
                                   Response(Head(batch).id, Head(batch_results))),
                        Tail(batch), Tail(batch_results))

\* No bulk call is running.  `i` is the loop variable of the loop over
\* batches, `outcomes` the batch_results gathered so far, `results` the
\* dictionary, `raised` whether the call itself has raised.
IdleBulk ==
    [ pc |-> "idle", service |-> "none", shape |-> "dict", items |-> << >>,
      i |-> 0, outcomes |-> << >>, results |-> << >>, raised |-> FALSE ]

BulkStart == bulk = IdleBulk

\* batch = items[i:i + batch_size]
Batch(b, size) == SubSeq(b.items, b.i + 1, Min(b.i + size, Len(b.items)))

\* The entry of bulk_optimize_prices.
BulkOptimizePrices ==
    /\ pricer.is_initialized
    /\ bulk.pc = "idle"
    /\ \E products \in ProductLists :
          bulk' = [IdleBulk EXCEPT !.pc = "running", !.service = "price",
                                   !.items = products]
    /\ UNCHANGED <<fraud, hash_seed, fraud_call, pricer, price_call, other_services>>

\* The bulk call after one iteration of the loop over batches of
\* bulk_optimize_prices.
AfterPriceBatch(b, svc) ==
    LET batch         == Batch(b, PriceBatchSize)
        batch_results == GatherPrices(svc, batch, Len(batch))
    IN  [b EXCEPT !.i = @ + PriceBatchSize,
                  !.outcomes = @ \o batch_results,
                  !.results = StorePrices(@, batch, batch_results)]

\* One iteration of the loop over batches of bulk_optimize_prices.
PriceBatch ==
    /\ bulk.pc = "running"
    /\ bulk.service = "price"
    /\ bulk.i < Len(bulk.items)
    /\ bulk' = AfterPriceBatch(bulk, pricer)
    /\ pricer' = PricerAfterTasks(pricer, Batch(bulk, PriceBatchSize),
                                  Len(Batch(bulk, PriceBatchSize)))
    /\ UNCHANGED <<fraud, hash_seed, fraud_call, price_call, other_services>>

\* The entry of bulk_analyze_transactions.
BulkAnalyzeTransactions ==
    /\ fraud.is_initialized
    /\ bulk.pc = "idle"
    /\ \E transactions \in TransactionLists, shape \in ItemShapes :
          bulk' = [IdleBulk EXCEPT !.pc = "running", !.service = "fraud",
                                   !.shape = shape, !.items = transactions]
    /\ UNCHANGED <<fraud, hash_seed, fraud_call, pricer, price_call, other_services>>

\* The bulk call after one iteration of the loop over batches of
\* bulk_analyze_transactions.  transaction_request['transaction'] raises
\* TypeError for an item that is not a dictionary, while the tasks are
\* being created; building a response can raise in the loop over
\* batch_results.  Neither is inside a try block: the call raises.
AfterFraudBatch(b, svc, seed) ==
    LET batch         == Batch(b, FraudBatchSize)
        batch_results == GatherAnalyses(svc, seed, batch, Len(batch))
    IN  IF b.shape = "model"
        THEN [b EXCEPT !.pc = "done", !.raised = TRUE]
        ELSE IF \E j \in 1..Len(batch) : ResponseRaises(batch_results[j])
        THEN [b EXCEPT !.pc = "done", !.raised = TRUE,
                       !.outcomes = @ \o batch_results]
        ELSE [b EXCEPT !.i = @ + FraudBatchSize,
                       !.outcomes = @ \o batch_results,
                       !.results = StoreResponses(@, batch, batch_results)]

\* One iteration of the loop over batches of bulk_analyze_transactions.
FraudBatch ==
    /\ bulk.pc = "running"
    /\ bulk.service = "fraud"
    /\ bulk.i < Len(bulk.items)
    /\ bulk' = AfterFraudBatch(bulk, fraud, hash_seed)
    /\ fraud' = IF bulk.shape = "model" THEN fraud
                ELSE ServiceAfterTasks(fraud, Batch(bulk, FraudBatchSize),
                                       Len(Batch(bulk, FraudBatchSize)))
    /\ UNCHANGED <<hash_seed, fraud_call, pricer, price_call, other_services>>

\* The loop over batches has ended: the call returns `results`.
BulkFinish ==
    /\ bulk.pc = "running"
    /\ bulk.i >= Len(bulk.items)
    /\ bulk' = [bulk EXCEPT !.pc = "done"]
    /\ UNCHANGED <<fraud, hash_seed, fraud_call, pricer, price_call, other_services>>

\* The caller has taken the dictionary (or the exception).
BulkReturn ==
    /\ bulk.pc = "done"
    /\ bulk' = IdleBulk
    /\ UNCHANGED <<fraud, hash_seed, fraud_call, pricer, price_call, other_services>>

BulkNext ==
    \/ LoadModels
    \/ LoadPriceModels
    \/ BulkOptimizePrices
    \/ PriceBatch
    \/ BulkAnalyzeTransactions
    \/ FraudBatch
    \/ BulkFinish
    \/ BulkReturn

----------------------------------------------------------------------------
(* Search service: SearchEngineService and the HTTP handlers around it     *)

\* The catalogue the requests speak about: two products, told apart by id,
\* each matched by the query that is its name.
Products ==
    { [id |-> "p1", name |-> "phone"], [id |-> "p2", name |-> "lamp"] }

Queries == {"phone", "lamp"}

\* multi_match of the query on the fields of a stored document.
Matches(query, product) == product.name = query

\* How the caller passes filters and pagination: not at all, as the
\* dictionary the service's signature asks for, or as the pydantic object
\* the endpoint holds (ProductFilter, Pagination).
ArgShapes == {"None", "dict", "model"}

\* `filters.get(...)` / `pagination.get(...)` on a pydantic object raises
\* AttributeError; None skips the branch, a dictionary answers.
GetRaises(arg) == arg = "model"

NoResponse == [query |-> "", total_results |-> -1, products |-> {},
               search_time_ms |-> -1]

EmptyResponse(query, ms) ==
    [query |-> query, total_results |-> 0, products |-> {},
     search_time_ms |-> ms]

\* The outcome of one backend method: the response it returns, or raised.
Outcome(response, raised, failed) ==
    [response |-> response, raised |-> raised, failed |-> failed]

\* _elasticsearch_search: builds the query (reading filters and
\* pagination), asks the cluster, maps the hits; every exception is logged
\* and raised again.
elasticsearch_search(svc, query, filters, pagination) ==
    IF GetRaises(filters) \/ GetRaises(pagination) \/ ~svc.es_up
    THEN Outcome(NoResponse, TRUE, TRUE)
    ELSE LET hits == { p \in svc.es_docs : Matches(query, p) }
         IN  Outcome([query |-> query, total_results |-> Cardinality(hits),
                      products |-> hits, search_time_ms |-> 3],
                     FALSE, FALSE)

\* _opensearch_search: a fixed empty answer, the cluster is never asked.
opensearch_search(svc, query, filters, pagination) ==
    Outcome(EmptyResponse(query, 50), FALSE, FALSE)

\* _whoosh_search: everything, `self.whoosh_index.searcher()` included, is
\* inside the try; an exception gives the empty response.
whoosh_search(svc, query, filters, pagination) ==
    IF svc.whoosh_index = "None" \/ GetRaises(filters) \/ GetRaises(pagination)
    THEN Outcome(EmptyResponse(query, 0), FALSE, TRUE)
    ELSE LET hits == { p \in svc.whoosh_docs : Matches(query, p) }
         IN  Outcome([query |-> query, total_results |-> Cardinality(hits),
                      products |-> hits, search_time_ms |-> 25],
                     FALSE, FALSE)

\* The backend methods search has entered, in order, and what it returned.
Searched(tried, outcome) ==
    [tried |-> tried, failed |-> outcome.failed, raised |-> outcome.raised,
     response |-> outcome.response]

\* A search that goes on to the next backend when the chosen one fails.
search_falls_through(svc, query, filters, pagination) ==
    LET es == elasticsearch_search(svc, query, filters, pagination)
        os == opensearch_search(svc, query, filters, pagination)
        wh == whoosh_search(svc, query, filters, pagination)
    IN  IF svc.elasticsearch_client /\ ~es.failed
        THEN Searched(<<"elasticsearch">>, es)
        ELSE IF svc.elasticsearch_client /\ svc.opensearch_client
        THEN Searched(<<"elasticsearch", "opensearch">>, os)
        ELSE IF svc.elasticsearch_client
        THEN Searched(<<"elasticsearch", "whoosh">>, wh)
        ELSE IF svc.opensearch_client
        THEN Searched(<<"opensearch">>, os)
        ELSE Searched(<<"whoosh">>, wh)

\* SearchEngineService.search
search_query(svc, query, filters, pagination) ==
    LET chosen == IF svc.elasticsearch_client THEN "elasticsearch"
                  ELSE IF svc.opensearch_client THEN "opensearch"
                  ELSE "whoosh"
        outcome ==
            IF chosen = "elasticsearch"
            THEN elasticsearch_search(svc, query, filters, pagination)
            ELSE IF chosen = "opensearch"
            THEN opensearch_search(svc, query, filters, pagination)
            ELSE whoosh_search(svc, query, filters, pagination)
    IN  IF outcome.raised
        THEN Searched(<<chosen>>,
                      Outcome(EmptyResponse(query, 0), FALSE, TRUE))
        ELSE Searched(<<chosen>>, outcome)

IdleSearchCall ==
    [pc |-> "idle", via |-> "", query |-> "", filters |-> "None",
     pagination |-> "None", tried |-> <<>>, failed |-> FALSE,
     raised |-> FALSE, response |-> NoResponse, status |-> 0]

\* SearchEngineService.__init__, with the clusters and the index directory
\* the service finds around it.
IdleSearch ==
    [initialized |-> FALSE,
     elasticsearch_client |-> FALSE, opensearch_client |-> FALSE,
     whoosh_index |-> "None",
     es_up |-> TRUE, es_docs |-> {}, whoosh_docs |-> {},
     acknowledged |-> {},
     call |-> IdleSearchCall]

SearchStart == search = IdleSearch

SearchFrame ==
    UNCHANGED <<fraud, hash_seed, fraud_call, pricer, price_call, bulk,
                health, event, reco, cf, gather,
                ensemble>>

\* SearchEngineService.initialize: a client for each configured URL, then
\* _initialize_whoosh, which keeps whoosh_index None when anything in it
\* raises.
SearchInitialize ==
    /\ ~search.initialized
    /\ \E es_url \in BOOLEAN, os_url \in BOOLEAN,
          index \in {"None", "index"} :
          search' = [search EXCEPT !.initialized = TRUE,
                                   !.elasticsearch_client = es_url,
                                   !.opensearch_client = os_url,
                                   !.whoosh_index = index]
    /\ SearchFrame

\* The Elasticsearch cluster goes down or comes back.
ClusterToggle ==
    /\ search.initialized
    /\ search.call.pc = "idle"
    /\ search' = [search EXCEPT !.es_up = ~search.es_up]
    /\ SearchFrame

\* Another program writes a document into the cluster's products index or
\* into the index directory; the service itself has no code that does.
ExternalWrite ==
    /\ search.initialized
    /\ search.call.pc = "idle"
    /\ \E p \in Products :
          \/ search' = [search EXCEPT !.es_docs = @ \cup {p}]
          \/ search' = [search EXCEPT !.whoosh_docs = @ \cup {p}]
    /\ SearchFrame

\* POST /api/v1/indexing/product: answers indexed: True for the product.
IndexProduct ==
    /\ search.initialized
    /\ search.call.pc = "idle"
    /\ \E p \in Products :
          search' = [search EXCEPT !.acknowledged = @ \cup {p.id}]
    /\ SearchFrame

AfterSearch(via, query, filters, pagination, status) ==
    LET r == search_query(search, query, filters, pagination)
    IN  [search EXCEPT !.call =
            [pc |-> "returned", via |-> via, query |-> query,
             filters |-> filters, pagination |-> pagination,
             tried |-> r.tried, failed |-> r.failed, raised |-> r.raised,
             response |-> r.response,
             status |-> IF r.raised THEN 500 ELSE status]]

\* A caller inside the service calls SearchEngineService.search.
SearchCall ==
    /\ search.initialized
    /\ search.call.pc = "idle"
    /\ \E query \in Queries, filters \in ArgShapes, pagination \in ArgShapes :
          search' = AfterSearch("service", query, filters, pagination, 0)
    /\ SearchFrame

\* POST /api/v1/search: search_products hands the request's pydantic
\* objects (or None) to SearchEngineService.search and answers 200 with
\* what it returns.
SearchProducts ==
    /\ search.initialized
    /\ search.call.pc = "idle"
    /\ \E query \in Queries, filters \in {"None", "model"},
          pagination \in {"None", "model"} :
          search' = AfterSearch("endpoint", query, filters, pagination, 200)
    /\ SearchFrame

SearchReturn ==
    /\ search.call.pc = "returned"
    /\ search' = [search EXCEPT !.call = IdleSearchCall]
    /\ SearchFrame

SearchNext ==
    \/ SearchInitialize
    \/ ClusterToggle
    \/ ExternalWrite
    \/ IndexProduct
    \/ SearchCall
    \/ SearchProducts
    \/ SearchReturn

----------------------------------------------------------------------------
(* Search service: health routes and the dependency checks behind them     *)

\* database.health_check: False without an engine (init_db returned early
\* because DATABASE_URL is unset); otherwise True when `SELECT 1` goes
\* through and False when anything in the round trip raises.
database_health_check(h) == h.engine /\ h.db_up

\* redis_client.health_check: get_redis raises without a client, ping
\* raises when the server is away; both are caught and give False.
redis_health_check(h) == h.redis_client /\ h.redis_up

\* service_bus.health_check: False without a client, False when the query
\* for the queue's properties raises.
service_bus_health_check(h) == h.service_bus_client /\ h.sb_up

\* What a `try: x = await check()` of a handler observes.
CheckOutcomes == {"True", "False", "raises"}

Observed(result) == IF result THEN "True" ELSE "False"

\* The entry detailed_health_check writes for one dependency.
DependencyStatus(outcome) ==
    IF outcome = "True" THEN "healthy" ELSE "unhealthy"

\* A detailed check that leaves the Service Bus entry out of the verdict.
OverallStatus_without_service_bus(dependencies) ==
    IF \E d \in {"database", "redis"} : dependencies[d] = "unhealthy"
    THEN "degraded"
    ELSE "healthy"

\* detailed_health_check, "Determine overall status".
OverallStatus(dependencies) ==
    IF \E d \in DOMAIN dependencies : dependencies[d] = "unhealthy"
    THEN "degraded"
    ELSE "healthy"

NoDependencies ==
    [database |-> "", redis |-> "", service_bus |-> ""]

Answer(endpoint, code, status, outcomes, dependencies) ==
    [pc |-> "returned", endpoint |-> endpoint, code |-> code,
     status |-> status, outcomes |-> outcomes,
     dependencies |-> dependencies]

IdleHealthCall ==
    [Answer("", 0, "", NoDependencies, NoDependencies) EXCEPT !.pc = "idle"]

\* GET /health/ : health_check
health_check(h) ==
    Answer("health", 200, "healthy", NoDependencies, NoDependencies)

\* GET /health/detailed : detailed_health_check
detailed_health_check(h) ==
    LET outcomes ==
            [database |-> Observed(database_health_check(h)),
             redis |-> Observed(redis_health_check(h)),
             service_bus |-> Observed(service_bus_health_check(h))]
        dependencies ==
            [d \in DOMAIN outcomes |-> DependencyStatus(outcomes[d])]
    IN  Answer("detailed", 200, OverallStatus(dependencies), outcomes,
               dependencies)

\* A readiness check that also waits for the Service Bus.
readiness_check_with_service_bus(h) ==
    LET outcomes ==
            [database |-> Observed(database_health_check(h)),
             redis |-> Observed(redis_health_check(h)),
             service_bus |-> ""]
    IN  IF /\ database_health_check(h)
           /\ redis_health_check(h)
           /\ service_bus_health_check(h)
        THEN Answer("ready", 200, "ready", outcomes, NoDependencies)
        ELSE Answer("ready", 503, "Service not ready", outcomes,
                    NoDependencies)

\* GET /health/ready : readiness_check.  The HTTPException(503) of the else
\* branch is caught by the handler's own except and raised again as 503.
readiness_check(h) ==
    LET outcomes ==
            [database |-> Observed(database_health_check(h)),
             redis |-> Observed(redis_health_check(h)),
             service_bus |-> ""]
    IN  IF outcomes.database = "True" /\ outcomes.redis = "True"
        THEN Answer("ready", 200, "ready", outcomes, NoDependencies)
        ELSE Answer("ready", 503, "Service not ready", outcomes,
                    NoDependencies)

\* GET /health/live : liveness_check
liveness_check(h) ==
    Answer("live", 200, "alive", NoDependencies, NoDependencies)

\* The module globals before the lifespan ran, and the servers around.
IdleHealth ==
    [running |-> FALSE,
     engine |-> FALSE, redis_client |-> FALSE, service_bus_client |-> FALSE,
     db_up |-> TRUE, redis_up |-> TRUE, sb_up |-> TRUE,
     call |-> IdleHealthCall]

HealthStart == health = IdleHealth

HealthFrame ==
    UNCHANGED <<fraud, hash_seed, fraud_call, pricer, price_call, bulk,
                search, event, reco, cf, gather,
                ensemble>>

\* lifespan: init_db (an engine only with DATABASE_URL, and then the
\* database must answer), init_redis (the server must answer the ping),
\* init_service_bus (a client only with a connection string).
Lifespan ==
    /\ ~health.running
    /\ health.redis_up
    /\ \E database_url \in BOOLEAN, connection_string \in BOOLEAN :
          /\ database_url => health.db_up
          /\ health' = [health EXCEPT !.running = TRUE,
                                      !.engine = database_url,
                                      !.redis_client = TRUE,
                                      !.service_bus_client =
                                          connection_string]
    /\ HealthFrame

\* A dependency goes away or comes back.
DependencyChange ==
    /\ health.call.pc = "idle"
    /\ \/ health' = [health EXCEPT !.db_up = ~@]
       \/ health' = [health EXCEPT !.redis_up = ~@]
       \/ health' = [health EXCEPT !.sb_up = ~@]
    /\ HealthFrame

\* The running service takes one request at a time.
Serving == health.running /\ health.call.pc = "idle"

HealthCheck ==
    /\ Serving
    /\ health' = [health EXCEPT !.call = health_check(health)]
    /\ HealthFrame

DetailedHealthCheck ==
    /\ Serving
    /\ health' = [health EXCEPT !.call = detailed_health_check(health)]
    /\ HealthFrame

ReadinessCheck ==
    /\ Serving
    /\ health' = [health EXCEPT !.call = readiness_check(health)]
    /\ HealthFrame

LivenessCheck ==
    /\ Serving
    /\ health' = [health EXCEPT !.call = liveness_check(health)]
    /\ HealthFrame

HealthReturn ==
    /\ health.call.pc = "returned"
    /\ health' = [health EXCEPT !.call = IdleHealthCall]
    /\ HealthFrame

HealthNext ==
    \/ Lifespan
    \/ DependencyChange
    \/ HealthCheck
    \/ DetailedHealthCheck
    \/ ReadinessCheck
    \/ LivenessCheck
    \/ HealthReturn

----------------------------------------------------------------------------
(* Shared event contracts: serialize_event and deserialize_event           *)

\* A Python value is a record [t, v]: its type and its content.  A
\* datetime's content is its ISO text, so isoformat and fromisoformat
\* change the type and keep the content.  A field name is the sequence of
\* its words: <<"occurred", "at">> is occurred_at.
Py(t, v) == [t |-> t, v |-> v]

PyNone == Py("None", "")

Timestamps == {"2024-01-01T10:00:00", "2024-06-30T23:59:59.000001"}

\* key.endswith('_at') or key == 'occurred_at'
IsTimestampKey(key) ==
    \/ Len(key) > 1 /\ key[Len(key)] = "at"
    \/ key = <<"occurred", "at">>

\* The types whose instances carry a __dict__.
ObjectTypes ==
    {"DomainEvent", "OrderItemEvent", "OrderCreatedEvent",
     "OrderShippedEvent", "PaymentProcessedEvent"}

\* json.dumps(event, cls=EventEncoder): a datetime becomes its ISO string,
\* an object its __dict__, a str-valued enum member its value.
RECURSIVE Encode(_)
Encode(x) ==
    CASE x.t \in {"str", "enum", "datetime"} -> Py("string", x.v)
      [] x.t = "num" -> Py("number", x.v)
      [] x.t = "None" -> Py("null", "")
      [] x.t = "list" ->
            Py("array", [i \in DOMAIN x.v |-> Encode(x.v[i])])
      [] OTHER -> Py("object", [k \in DOMAIN x.v |-> Encode(x.v[k])])

\* json.loads
RECURSIVE Decode(_)
Decode(j) ==
    CASE j.t = "string" -> Py("str", j.v)
      [] j.t = "number" -> Py("num", j.v)
      [] j.t = "null" -> PyNone
      [] j.t = "array" ->
            Py("list", [i \in DOMAIN j.v |-> Decode(j.v[i])])
      [] OTHER -> Py("dict", [k \in DOMAIN j.v |-> Decode(j.v[k])])

\* __post_init__: a subclass sets its EventType member, the base class
\* keeps a non-empty event_type.
EventTypeOf(cls, given) ==
    CASE cls = "OrderCreatedEvent" -> Py("enum", "OrderCreated")
      [] cls = "OrderShippedEvent" -> Py("enum", "OrderShipped")
      [] cls = "PaymentProcessedEvent" -> Py("enum", "PaymentProcessed")
      [] OTHER -> IF given.v = "" THEN Py("str", cls) ELSE given

\* event_class(**data): the dataclass constructor followed by
\* __post_init__.
Construct(cls, data) ==
    Py(cls, [data EXCEPT ![<<"event", "type">>] = EventTypeOf(cls, @)])

serialize_event(e) == Encode(e)

deserialize_event(event_json, cls) ==
    LET data == Decode(event_json).v
        converted ==
            [key \in DOMAIN data |->
                IF IsTimestampKey(key) /\ data[key].t = "str"
                THEN Py("datetime", data[key].v)
                ELSE data[key]]
    IN  Construct(cls, converted)

\* The == of Python on the values above: equal types and equal contents,
\* element by element.
RECURSIVE PyEq(_, _)
PyEq(a, b) ==
    /\ a.t = b.t
    /\ IF a.t \in {"list", "dict"} \cup ObjectTypes
       THEN /\ DOMAIN a.v = DOMAIN b.v
            /\ \A k \in DOMAIN a.v : PyEq(a.v[k], b.v[k])
       ELSE a.v = b.v

\* The fields of DomainEvent.
BaseFields(occurred_at) ==
    (<<"event", "id">> :> Py("str", "e-1"))
    @@ (<<"event", "type">> :> Py("str", ""))
    @@ (<<"occurred", "at">> :> Py("datetime", occurred_at))
    @@ (<<"version">> :> Py("num", "1"))
    @@ (<<"metadata">> :> Py("dict", <<>>))

OrderItems ==
    { Py("OrderItemEvent",
         (<<"product", "id">> :> Py("str", p))
         @@ (<<"quantity">> :> Py("num", "2"))
         @@ (<<"price">> :> Py("num", "9.99"))
         @@ (<<"product", "name">> :> Py("str", ""))
         @@ (<<"product", "sku">> :> Py("str", ""))) : p \in {"p1", "p2"} }

ItemLists14 ==
    {<<>>} \cup { <<i>> : i \in OrderItems }
           \cup { <<i, j>> : i \in OrderItems, j \in OrderItems }

DomainEvents ==
    { Construct("DomainEvent", BaseFields(at)) : at \in Timestamps }

OrderCreatedEvents ==
    { Construct("OrderCreatedEvent",
        BaseFields(at)
        @@ (<<"order", "id">> :> Py("str", "o-1"))
        @@ (<<"customer", "id">> :> Py("str", "u1"))
        @@ (<<"total", "amount">> :> Py("num", "19.98"))
        @@ (<<"currency">> :> Py("str", "USD"))
        @@ (<<"items">> :> Py("list", items))
        @@ (<<"order", "date">> :> Py("datetime", date))
        @@ (<<"status">> :> Py("str", "Pending"))) :
        at \in Timestamps, date \in Timestamps, items \in ItemLists14 }

OrderShippedEvents ==
    { Construct("OrderShippedEvent",
        BaseFields(at)
        @@ (<<"order", "id">> :> Py("str", "o-1"))
        @@ (<<"tracking", "number">> :> Py("str", "t-1"))
        @@ (<<"shipping", "carrier">> :> Py("str", "post"))
        @@ (<<"shipped", "at">> :> Py("datetime", shipped))
        @@ (<<"estimated", "delivery">> :> delivery)
        @@ (<<"shipping", "address">> :> Py("str", ""))) :
        at \in Timestamps, shipped \in Timestamps,
        delivery \in {PyNone} \cup { Py("datetime", d) : d \in Timestamps } }

PaymentProcessedEvents ==
    { Construct("PaymentProcessedEvent",
        BaseFields(at)
        @@ (<<"payment", "id">> :> Py("str", "pay-1"))
        @@ (<<"order", "id">> :> Py("str", "o-1"))
        @@ (<<"amount">> :> Py("num", amount))
        @@ (<<"currency">> :> Py("str", "USD"))
        @@ (<<"payment", "method">> :> Py("str", "card"))
        @@ (<<"transaction", "id">> :> Py("str", "tx-1"))
        @@ (<<"status">> :> Py("str", "ok"))
        @@ (<<"processed", "at">> :> Py("datetime", processed))) :
        at \in Timestamps, processed \in Timestamps,
        amount \in {"0.0", "19.98"} }

Events ==
    DomainEvents \cup OrderCreatedEvents \cup OrderShippedEvents
                 \cup PaymentProcessedEvents

NoEvent == Py("None", "")

IdleEvent ==
    [pc |-> "idle", e |-> NoEvent, event_json |-> NoEvent, back |-> NoEvent]

EventStart(events) ==
    event \in {IdleEvent}
              \cup { [IdleEvent EXCEPT !.pc = "created", !.e = e] :
                        e \in events }

EventFrame ==
    UNCHANGED <<fraud, hash_seed, fraud_call, pricer, price_call, bulk,
                search, health, reco, cf, gather,
                ensemble>>

\* A publisher serializes the event for the Service Bus.
SerializeEvent ==
    /\ event.pc = "created"
    /\ event' = [event EXCEPT !.pc = "serialized",
                              !.event_json = serialize_event(event.e)]
    /\ EventFrame

\* A consumer reads it back as the class of its event type.
DeserializeEvent ==
    /\ event.pc = "serialized"
    /\ event' = [event EXCEPT !.pc = "deserialized",
                              !.back = deserialize_event(event.event_json,
                                                         event.e.t)]
    /\ EventFrame

EventNext == SerializeEvent \/ DeserializeEvent

----------------------------------------------------------------------------
(* Recommendation engine: the cache around POST /api/recommendations       *)

RecoUsers == {"u1", "u2"}

\* What requests ask for: u1 with and without a category, u2 without.
Asks ==
    { [user_id |-> "u1", category |-> "None", count |-> 5],
      [user_id |-> "u1", category |-> "books", count |-> 5],
      [user_id |-> "u2", category |-> "None", count |-> 5] }

\* How many feedback calls and order events the model follows per user.
MaxFeedback == 1

\* The recommendation requests in progress: one at a time, with feedback
\* calls, order events, expiry and Redis outages between any two of its
\* awaits.
RequestSlots == {1}

\* A cache key without the category.
cache_key_without_category(ask) == <<ask.user_id, "all", ask.count>>

\* f"recommendations:{request.user_id}:{request.category or 'all'}:
\*   {request.count}"
cache_key(ask) ==
    <<ask.user_id,
      IF ask.category = "None" THEN "all" ELSE ask.category,
      ask.count>>

CacheKeys == { cache_key(ask) : ask \in Asks }

\* f"recommendations:{user_id}:*"
MatchesUser(key, user_id) == key[1] = user_id

NoEntry == [ttl |-> 0, user_id |-> "", made_for |-> <<>>, generation |-> -1,
            cache_ttl |-> 0]

\* The RecommendationResponse built after a computation.  Its
\* recommendations are summed up by the request they were made for and by
\* the number of feedback calls of the user that had returned when they
\* were computed.
NewResponse(ask, generation) ==
    [ttl |-> 0, user_id |-> ask.user_id, made_for |-> cache_key(ask),
     generation |-> generation, cache_ttl |-> 300]

\* Redis answers when the service holds a client and the server is up;
\* get_from_cache, set_cache and invalidate_user_cache swallow every error.
RedisAnswers(r) == r.redis_client /\ r.redis_up

\* Whether a cache operation of this moment ends in its except branch.
CacheError(r) == r.redis_client /\ ~r.redis_up

\* get_from_cache: the stored dictionary, or None.
get_from_cache(r, key) ==
    IF RedisAnswers(r) THEN r.cache[key] ELSE NoEntry

\* set_cache: setex(key, ttl, json) when Redis answers.
set_cache(r, key, data, ttl) ==
    IF RedisAnswers(r)
    THEN [r.cache EXCEPT ![key] = [data EXCEPT !.ttl = ttl]]
    ELSE r.cache

\* invalidate_user_cache: delete every key the pattern matches.
invalidate_user_cache(r, user_id) ==
    IF RedisAnswers(r)
    THEN [key \in DOMAIN r.cache |->
            IF MatchesUser(key, user_id) THEN NoEntry ELSE r.cache[key]]
    ELSE r.cache

IdleRequest ==
    [pc |-> "idle", ask |-> [user_id |-> "", category |-> "None", count |-> 0],
     refresh_cache |-> FALSE, since |-> 0,
     stored |-> NoEntry, hit |-> FALSE,
     computed |-> FALSE, redis_at_write |-> FALSE, written |-> NoEntry,
     written_key |-> <<>>,
     response |-> NoEntry, status |-> 0]

\* app.state before the lifespan ran, Redis up, and nobody calling.
IdleReco ==
    [started |-> FALSE, redis_client |-> FALSE, redis_up |-> TRUE,
     cache |-> [key \in CacheKeys |-> NoEntry],
     feedbacks |-> [u \in RecoUsers |-> 0],
     cache_errors |-> FALSE,
     request |-> [s \in RequestSlots |-> IdleRequest]]

RecoStart == reco = IdleReco

RecoFrame ==
    UNCHANGED <<fraud, hash_seed, fraud_call, pricer, price_call, bulk,
                search, health, event, cf, gather,
                ensemble>>

\* lifespan: the client is kept only when the ping succeeds.
RecoLifespan ==
    /\ ~reco.started
    /\ reco' = [reco EXCEPT !.started = TRUE,
                            !.redis_client = reco.redis_up]
    /\ RecoFrame

\* The Redis server goes away or comes back.
RedisToggle ==
    /\ reco' = [reco EXCEPT !.redis_up = ~@]
    /\ RecoFrame

\* The TTL of an entry runs out.
Expire ==
    /\ \E key \in CacheKeys :
          /\ reco.cache[key] # NoEntry
          /\ reco' = [reco EXCEPT !.cache[key] = NoEntry]
    /\ RecoFrame

\* get_recommendations up to its first decision: the cache is read, and a
\* hit without refresh_cache is returned at once.
AfterCacheCheck(s, ask, refresh_cache) ==
    LET cached_result == get_from_cache(reco, cache_key(ask))
        call == [IdleRequest EXCEPT
                    !.ask = ask, !.refresh_cache = refresh_cache,
                    !.since = reco.feedbacks[ask.user_id],
                    !.stored = reco.cache[cache_key(ask)],
                    !.hit = cached_result # NoEntry]
    IN  IF cached_result # NoEntry /\ ~refresh_cache
        THEN [call EXCEPT !.pc = "returned", !.status = 200,
                          !.response = [cached_result EXCEPT !.ttl = 0]]
        ELSE [call EXCEPT !.pc = "computing"]

GetRecommendations ==
    /\ reco.started
    /\ \E s \in RequestSlots, ask \in Asks, refresh_cache \in BOOLEAN :
          /\ reco.request[s].pc = "idle"
          /\ reco' = [reco EXCEPT
                !.cache_errors = @ \/ CacheError(reco),
                !.request[s] = AfterCacheCheck(s, ask, refresh_cache)]
    /\ RecoFrame

\* get_user_profile and hybrid_recommender.get_recommendations: the
\* recommender answers from the interactions known at this moment, or
\* raises, which the handler turns into a 500.
Compute ==
    /\ \E s \in RequestSlots, raises \in BOOLEAN :
          /\ reco.request[s].pc = "computing"
          /\ LET call == reco.request[s]
                 response ==
                     NewResponse(call.ask, reco.feedbacks[call.ask.user_id])
             IN  reco' = [reco EXCEPT !.request[s] =
                    IF raises
                    THEN [call EXCEPT !.pc = "returned", !.computed = TRUE,
                                      !.status = 500]
                    ELSE [call EXCEPT !.pc = "caching", !.computed = TRUE,
                                      !.response = response]]
    /\ RecoFrame

\* set_cache(cache_key, response.dict(), ttl=300), then the response.
SetCache ==
    /\ \E s \in RequestSlots :
          /\ reco.request[s].pc = "caching"
          /\ LET call == reco.request[s]
                 cache == set_cache(reco, cache_key(call.ask),
                                    call.response, 300)
             IN  reco' = [reco EXCEPT
                    !.cache = cache,
                    !.cache_errors = @ \/ CacheError(reco),
                    !.request[s] =
                        [call EXCEPT !.pc = "returned", !.status = 200,
                                     !.redis_at_write = RedisAnswers(reco),
                                     !.written =
                                         IF RedisAnswers(reco)
                                         THEN cache[cache_key(call.ask)]
                                         ELSE NoEntry,
                                     !.written_key =
                                         IF RedisAnswers(reco)
                                         THEN cache_key(call.ask)
                                         ELSE <<>>]]
    /\ RecoFrame

RecommendationsReturn ==
    /\ \E s \in RequestSlots :
          /\ reco.request[s].pc = "returned"
          /\ reco' = [reco EXCEPT !.request[s] = IdleRequest]
    /\ RecoFrame

\* POST /api/feedback: update_interaction_matrix (which only logs),
\* invalidate_user_cache, should_update_model (always False), success.
ProcessFeedback ==
    /\ reco.started
    /\ \E user_id \in RecoUsers :
          /\ reco.feedbacks[user_id] < MaxFeedback
          /\ reco' = [reco EXCEPT
                !.cache = invalidate_user_cache(reco, user_id),
                !.cache_errors = @ \/ CacheError(reco),
                !.feedbacks[user_id] = @ + 1]
    /\ RecoFrame

\* process_order_event for an OrderCreated event of the customer.
ProcessOrderEvent ==
    /\ reco.started
    /\ \E user_id \in RecoUsers :
          /\ reco.feedbacks[user_id] < MaxFeedback
          /\ reco' = [reco EXCEPT
                !.cache = invalidate_user_cache(reco, user_id),
                !.cache_errors = @ \/ CacheError(reco),
                !.feedbacks[user_id] = @ + 1]
    /\ RecoFrame

RecoNext ==
    \/ RecoLifespan
    \/ RedisToggle
    \/ Expire
    \/ GetRecommendations
    \/ Compute
    \/ SetCache
    \/ RecommendationsReturn
    \/ ProcessFeedback
    \/ ProcessOrderEvent

----------------------------------------------------------------------------
(* Recommendation engine: CollaborativeFilteringEngine                     *)

CfUsers == {"u1", "u2"}

CfItems == {"i1", "i2"}

\* An interactions DataFrame: its rows in order, each a user and an item
\* (the rating has no part in what follows).
Interaction == CfUsers \X CfItems

\* The longest DataFrame the model trains on.
MaxRows == 2

DataFrames ==
    UNION { [1..n -> Interaction] : n \in 1..MaxRows }

\* How many incremental updates follow the training.
MaxUpdates == 1

\* Series.unique(): the values in order of first appearance.
RECURSIVE Unique(_)
Unique(values) ==
    IF values = <<>> THEN <<>>
    ELSE LET front == Unique(SubSeq(values, 1, Len(values) - 1))
             last == values[Len(values)]
         IN  IF \E i \in DOMAIN front : front[i] = last
             THEN front
             ELSE Append(front, last)

Column(df, c) == [r \in DOMAIN df |-> df[r][c]]

\* {value: idx for idx, value in enumerate(unique)}, held as the sequence
\* of the values: the index of a value is its position, from 0.
Known(mapper) == { mapper[i] : i \in DOMAIN mapper }

\* CollaborativeFilteringEngine.__init__
NewEngine ==
    [is_trained |-> FALSE, user_mapper |-> <<>>, item_mapper |-> <<>>,
     training_data_size |-> 0]

\* train: the mappings are rebuilt from the DataFrame alone; is_trained is
\* set after the fit, so a fit that raises leaves it as it was.
train(engine, interactions_df, fit_raises) ==
    LET mapped == [engine EXCEPT
                      !.user_mapper = Unique(Column(interactions_df, 1)),
                      !.item_mapper = Unique(Column(interactions_df, 2))]
    IN  IF fit_raises
        THEN mapped
        ELSE [mapped EXCEPT !.is_trained = TRUE,
                            !.training_data_size = Len(interactions_df)]

\* An update that merges the new rows' users and items into the mappings.
incremental_update_merging(engine, new_interactions, fit_raises) ==
    LET trained == train(engine, new_interactions, fit_raises)
    IN  [trained EXCEPT
            !.user_mapper = Unique(engine.user_mapper \o @),
            !.item_mapper = Unique(engine.item_mapper \o @)]

\* incremental_update: "a simple retrain" on the new interactions.
incremental_update(engine, new_interactions, fit_raises) ==
    train(engine, new_interactions, fit_raises)

\* _get_popular_items: min(count, 10) mock items.
get_popular_items(count) ==
    [i \in 1..(IF count < 10 THEN count ELSE 10) |->
        [product_id |-> <<"popular_item", i>>,
         algorithm |-> "popularity_fallback"]]

\* What model.recommend(user_idx, ..., N) gives back: it raises, or it
\* returns at most N item indices; an index may be one the mappings do
\* not hold.
AlsOutcomes(engine, n) ==
    LET indices == 0..Len(engine.item_mapper)
        most == IF n < 2 THEN n ELSE 2
    IN  { [raises |-> TRUE, items |-> <<>>] }
        \cup { [raises |-> FALSE, items |-> items] :
                  items \in UNION { [1..k -> indices] : k \in 0..most } }

\* The loop of get_recommendations over the recommended indices: stop at
\* count, skip an index without a product.
RECURSIVE Collect(_, _, _, _)
Collect(engine, items, count, done) ==
    IF items = <<>> \/ Len(done) >= count THEN done
    ELSE LET item_idx == Head(items)
             found == item_idx + 1 \in DOMAIN engine.item_mapper
             next == IF found
                     THEN Append(done,
                                 [product_id |->
                                      engine.item_mapper[item_idx + 1],
                                  algorithm |-> "collaborative_filtering"])
                     ELSE done
         IN  Collect(engine, Tail(items), count, next)

\* A get_recommendations that returns everything the model recommended.
get_recommendations_uncut(engine, user_id, count, als) ==
    IF ~engine.is_trained \/ user_id \notin Known(engine.user_mapper)
    THEN get_popular_items(count)
    ELSE IF als.raises
    THEN get_popular_items(count)
    ELSE Collect(engine, als.items, 2 * count, <<>>)

\* CollaborativeFilteringEngine.get_recommendations
get_recommendations(engine, user_id, count, als) ==
    IF ~engine.is_trained
    THEN get_popular_items(count)
    ELSE IF user_id \notin Known(engine.user_mapper)
    THEN get_popular_items(count)
    ELSE IF als.raises
    THEN get_popular_items(count)
    ELSE Collect(engine, als.items, count, <<>>)

CfCounts == {1, 2, 12}

\* The users and the items a DataFrame speaks of.
DataOf(df) ==
    [users |-> Known(Column(df, 1)), items |-> Known(Column(df, 2))]

NoData == [users |-> {}, items |-> {}]

IdleCfCall ==
    [pc |-> "idle", user_id |-> "", count |-> 0,
     als |-> [raises |-> TRUE, items |-> <<>>],
     result |-> <<>>]

\* The engine after construction; nothing trained, nobody calling.
IdleCf ==
    [engine |-> NewEngine, trained_on |-> NoData, updated_with |-> NoData,
     updates |-> 0, call |-> IdleCfCall]

CfStart == cf = IdleCf

CfFrame ==
    UNCHANGED <<fraud, hash_seed, fraud_call, pricer, price_call, bulk,
                search, health, event, reco, gather,
                ensemble>>

\* await engine.train(D), the first training.
Train ==
    /\ cf.call.pc = "idle"
    /\ cf.trained_on = NoData
    /\ \E df \in DataFrames, fit_raises \in BOOLEAN :
          cf' = [cf EXCEPT
                    !.engine = train(cf.engine, df, fit_raises),
                    !.trained_on =
                        IF fit_raises THEN NoData ELSE DataOf(df)]
    /\ CfFrame

\* await engine.incremental_update(N) on the trained engine.
IncrementalUpdate ==
    /\ cf.call.pc = "idle"
    /\ cf.trained_on # NoData
    /\ cf.updates < MaxUpdates
    /\ \E df \in DataFrames :
          cf' = [cf EXCEPT
                    !.engine = incremental_update(cf.engine, df, FALSE),
                    !.updated_with = DataOf(df),
                    !.updates = @ + 1]
    /\ CfFrame

\* An incremental update whose fit raises: the exception reaches the
\* caller, the mappings are those of the new rows already.
IncrementalUpdateRaises ==
    /\ cf.call.pc = "idle"
    /\ cf.trained_on # NoData
    /\ cf.updates = 0
    /\ \E df \in DataFrames :
          cf' = [cf EXCEPT
                    !.engine = incremental_update(cf.engine, df, TRUE)]
    /\ CfFrame

\* await engine.get_recommendations(user_id, count)
CfGetRecommendations ==
    /\ cf.call.pc = "idle"
    /\ \E user_id \in CfUsers, count \in CfCounts :
          \E als \in AlsOutcomes(cf.engine, 2 * count) :
              cf' = [cf EXCEPT !.call =
                        [pc |-> "returned", user_id |-> user_id,
                         count |-> count, als |-> als,
                         result |-> get_recommendations(cf.engine, user_id,
                                                        count, als)]]
    /\ CfFrame

CfReturn ==
    /\ cf.call.pc = "returned"
    /\ cf' = [cf EXCEPT !.call = IdleCfCall]
    /\ CfFrame

CfNext ==
    \/ Train
    \/ IncrementalUpdate
    \/ IncrementalUpdateRaises
    \/ CfGetRecommendations
    \/ CfReturn

----------------------------------------------------------------------------
(* The bulk calls at the grain of their tasks                              *)

\* The bulk sections above take a batch in one step.  Here one bulk call
\* is followed task by task: asyncio.gather wraps the coroutines of the
\* batch into tasks, the event loop starts them in the order they were
\* created, each finishes on its own (returning or raising), and gather
\* hands back the list when the last one has finished.  Items are counted,
\* not named: `started` and `finished` are the numbers of items of the
\* whole list whose analysis has started and has finished.

BatchSizeOf(service) ==
    IF service = "price" THEN PriceBatchSize ELSE FraudBatchSize

IdleGather ==
    [pc |-> "idle", service |-> "none", n |-> 0, i |-> 0, scheduled |-> 0,
     started |-> 0, finished |-> 0, failed |-> 0, raised |-> FALSE]

GatherStart == gather = IdleGather

GatherFrame ==
    UNCHANGED <<fraud, hash_seed, fraud_call, pricer, price_call, bulk,
                search, health, event, reco, cf, ensemble>>

\* A gather that hands back as soon as one task has finished.
GatherReturns_first_completed(g) == g.finished > g.i

\* await asyncio.gather(*batch_tasks, return_exceptions=True): every task
\* of the batch has finished, with a result or with an exception.
GatherReturns(g) == g.finished = g.scheduled

\* bulk_optimize_prices / bulk_analyze_transactions is called with a list
\* of n items; range(0, n, batch_size) is empty for an empty list.
BulkCall ==
    /\ gather.pc = "idle"
    /\ \E service \in {"price", "fraud"} :
          \E n \in {0, 1, BatchSizeOf(service) + 1,
                    BatchSizeOf(service) + ExtraItems} :
              gather' = [IdleGather EXCEPT
                            !.pc = IF n = 0 THEN "done" ELSE "batch",
                            !.service = service, !.n = n]
    /\ GatherFrame

\* batch = items[i:i + batch_size]; one coroutine per item is created (an
\* item whose fields cannot be read raises here, before anything runs) and
\* the coroutines are handed to gather.
CreateTasks ==
    /\ gather.pc = "batch"
    /\ \E raises \in BOOLEAN :
          gather' =
              IF raises
              THEN [gather EXCEPT !.pc = "done", !.raised = TRUE]
              ELSE [gather EXCEPT
                       !.pc = "gathering",
                       !.scheduled =
                           Min(gather.i + BatchSizeOf(gather.service),
                               gather.n)]
    /\ GatherFrame

\* The event loop starts the next scheduled task.
TaskStart ==
    /\ gather.pc \in {"batch", "gathering"}
    /\ gather.started < gather.scheduled
    /\ gather' = [gather EXCEPT !.started = @ + 1]
    /\ GatherFrame

\* A started task finishes, with its result or with an exception.
TaskFinish ==
    /\ gather.pc \in {"batch", "gathering"}
    /\ gather.finished < gather.started
    /\ \E raises \in BOOLEAN :
          gather' = [gather EXCEPT
                        !.finished = @ + 1,
                        !.failed = IF raises THEN @ + 1 ELSE @]
    /\ GatherFrame

\* gather has returned: the results are stored (building a response may
\* raise in the fraud service), and the loop goes on to the next batch or
\* the call returns.
ProcessResults ==
    /\ gather.pc = "gathering"
    /\ GatherReturns(gather)
    /\ \E raises \in BOOLEAN :
          /\ raises => gather.service = "fraud"
          /\ LET next == gather.i + BatchSizeOf(gather.service)
             IN  gather' =
                    IF raises
                    THEN [gather EXCEPT !.pc = "done", !.raised = TRUE]
                    ELSE [gather EXCEPT
                             !.i = next,
                             !.pc = IF next >= gather.n
                                    THEN "done" ELSE "batch"]
    /\ GatherFrame

\* The caller has the dictionary or the exception.
GatherReturn ==
    /\ gather.pc = "done"
    /\ gather' = IdleGather
    /\ GatherFrame

GatherNext ==
    \/ BulkCall
    \/ CreateTasks
    \/ TaskStart
    \/ TaskFinish
    \/ ProcessResults
    \/ GatherReturn

----------------------------------------------------------------------------
(* Two analyses of one transaction, the second changed in one field        *)

\* What analyze_transaction computes on its way to the fraud score: the
\* rule indicators, the scores of the six models, the four risk scores,
\* and the ensemble score of them.  `raised` is the TypeError of the
\* velocity analysis, which ends the call before the score is taken.
Scored(svc, seed, r) ==
    LET rules      == apply_fraud_rules(svc, r)
        ml         == run_ml_models(svc, r)
        an         == detect_anomalies(svc, r)
        device     == analyze_device_risk(seed, r)
        behavioral == analyze_behavioral_patterns(r)
        velocity   == analyze_velocity_patterns(r)
        geographic == analyze_geographic_risk(r)
    IN  [ req |-> r,
          raised |-> VelocityRaises(r),
          rules |-> rules,
          components |-> ml \o an \o <<device, behavioral, velocity, geographic>>,
          fraud_score |-> calculate_ensemble_score(ml, an, rules, device,
                                                   behavioral, velocity,
                                                   geographic) ]

\* The transactions analysed first: a base request, or one that differs
\* from a base request in one field.
FirstRequests ==
    UNION { Vary(base, {f}) : base \in BaseRequests, f \in Fields }

NotScored ==
    [ req |-> BenignRequest, raised |-> FALSE, rules |-> << >>,
      components |-> << >>, fraud_score |-> 0 ]

IdleEnsemble == [pc |-> "idle", first |-> NotScored, second |-> NotScored]

EnsembleStart == ensemble = IdleEnsemble

EnsembleFrame ==
    UNCHANGED <<fraud_call, pricer, price_call, bulk,
                search, health, event, reco, cf, gather>>

\* analyze_transaction on a transaction.
ScoreTransaction ==
    /\ fraud.is_initialized
    /\ ensemble.pc = "idle"
    /\ \E r \in FirstRequests :
          /\ ensemble' = [ensemble EXCEPT
                             !.pc = "first",
                             !.first = Scored(fraud, hash_seed, r)]
          /\ fraud' = ServiceAfterAnalyze(fraud, r)
    /\ UNCHANGED hash_seed
    /\ EnsembleFrame

\* analyze_transaction on the same transaction with one field changed.
ScoreVariant ==
    /\ ensemble.pc = "first"
    /\ \E f \in Fields :
          \E v \in FieldDomain[f] \ {ensemble.first.req[f]} :
              LET r == [ensemble.first.req EXCEPT ![f] = v]
              IN  /\ ensemble' = [ensemble EXCEPT
                                     !.pc = "second",
                                     !.second = Scored(fraud, hash_seed, r)]
                  /\ fraud' = ServiceAfterAnalyze(fraud, r)
    /\ UNCHANGED hash_seed
    /\ EnsembleFrame

\* Both results have been taken.
EnsembleReturn ==
    /\ ensemble.pc = "second"
    /\ ensemble' = IdleEnsemble
    /\ UNCHANGED <<fraud, hash_seed>>
    /\ EnsembleFrame

EnsembleNext ==
    \/ LoadModels
    \/ ScoreTransaction
    \/ ScoreVariant
    \/ EnsembleReturn

----------------------------------------------------------------------------
\* The services outside the fraud, price and bulk sections, before use.
OthersIdle ==
    /\ SearchStart /\ HealthStart /\ EventStart({}) /\ RecoStart /\ CfStart
    /\ GatherStart /\ EnsembleStart

----------------------------------------------------------------------------
(* Specifications                                                          *)

vars == <<fraud, hash_seed, fraud_call, pricer, price_call, bulk, other_services>>

\* The fraud detection service serving requests one after the other.
InitFraud == FraudStart(HashSeeds) /\ PriceStart /\ BulkStart /\ OthersIdle

SpecFraud == InitFraud /\ [][FraudNext]_vars

\* The price optimization service serving requests one after the other.
InitPrice == FraudStart({{}}) /\ PriceStart /\ BulkStart /\ OthersIdle

SpecPrice == InitPrice /\ [][PriceNext]_vars

\* Both services serving bulk requests, one bulk call at a time.
InitBulk == FraudStart({{}}) /\ PriceStart /\ BulkStart /\ OthersIdle

SpecBulk == InitBulk /\ [][BulkNext]_vars

\* The search service: initialisation, then searches and indexing calls,
\* one at a time, while the clusters around it change.
InitSearch == FraudStart({{}}) /\ PriceStart /\ BulkStart /\ OthersIdle

SpecSearch == InitSearch /\ [][SearchNext]_vars

\* The health routes of the search service while its dependencies come
\* and go.
InitHealth == FraudStart({{}}) /\ PriceStart /\ BulkStart /\ OthersIdle

SpecHealth == InitHealth /\ [][HealthNext]_vars

\* Every event of the bounded set serialized and read back.
InitEvents ==
    /\ FraudStart({{}}) /\ PriceStart /\ BulkStart
    /\ SearchStart /\ HealthStart /\ EventStart(Events) /\ RecoStart
    /\ CfStart /\ GatherStart /\ EnsembleStart

SpecEvents == InitEvents /\ [][EventNext]_vars

\* The recommendation engine serving concurrent recommendation requests,
\* feedback calls and order events.
InitReco == FraudStart({{}}) /\ PriceStart /\ BulkStart /\ OthersIdle

SpecReco == InitReco /\ [][RecoNext]_vars

\* The collaborative filtering engine: trained, updated and asked.
InitCf == FraudStart({{}}) /\ PriceStart /\ BulkStart /\ OthersIdle

SpecCf == InitCf /\ [][CfNext]_vars

\* One bulk call after the other, each followed task by task.
InitGather == FraudStart({{}}) /\ PriceStart /\ BulkStart /\ OthersIdle

SpecGather == InitGather /\ [][GatherNext]_vars

\* Pairs of analyses of a transaction and a variant of it.
InitEnsemble == FraudStart(HashSeeds) /\ PriceStart /\ BulkStart /\ OthersIdle

SpecEnsemble == InitEnsemble /\ [][EnsembleNext]_vars

----------
(* Claims about the fraud service                                          *)

FraudDone == fraud_call.pc = "done" /\ fraud_call.result.status = "ok"

\* The rule indicators of the request of the call that has returned.
CallRules == apply_fraud_rules(fraud, fraud_call.req)

\* C1: every fraud_score that analyze_transaction returns lies in [0, 1],
\* whatever the model scores, anomaly scores, rule severities and risk
\* scores of the request are.
C1_ScoreInUnitInterval ==
    FraudDone =>
        /\ fraud_call.result.fraud_score >= 0
        /\ fraud_call.result.fraud_score <= FinalOne

\* A call has returned a score above 0.9, and it came from a pre-trained
\* anomaly model whose raw decision_function value was outside [0, 1].
C1_Witness ==
    /\ FraudDone
    /\ fraud_call.result.fraud_score > Lit(90)
    /\ fraud_call.req.df_if < 0
    /\ fraud.models["isolation_forest"] = "pretrained"

Leniency(decision) ==
    CASE decision = "APPROVE"   -> 3
      [] decision = "CHALLENGE" -> 2
      [] decision = "REVIEW"    -> 1
      [] decision = "DECLINE"   -> 0

\* Scores around every threshold of the decision, in final-score units.
ScoreGrid == {0, FinalOne} \cup { Lit(h) + d : h \in {40, 60, 80}, d \in {-1, 0} }

\* C2: without a rule indicator of severity above 0.9 the decision is
\* DECLINE iff score >= 0.8, REVIEW iff 0.6 <= score < 0.8, CHALLENGE iff
\* 0.4 <= score < 0.6 and APPROVE iff score < 0.4; and for the indicators of
\* the call a higher score never gives a more lenient decision.
C2_DecisionByScore ==
    FraudDone =>
        LET score == fraud_call.result.fraud_score
            decision == fraud_call.result.decision
            rules == CallRules
            grid == ScoreGrid \cup {score}
            lenient == [s \in grid |-> Leniency(make_fraud_decision(s, rules))]
        IN  /\ critical_indicators(rules) = {} =>
                /\ (decision = "DECLINE") <=> (score >= Lit(80))
                /\ (decision = "REVIEW") <=> (score >= Lit(60) /\ score < Lit(80))
                /\ (decision = "CHALLENGE") <=> (score >= Lit(40) /\ score < Lit(60))
                /\ (decision = "APPROVE") <=> (score < Lit(40))
            /\ \A s1 \in grid, s2 \in grid :
                  s1 <= s2 => lenient[s1] >= lenient[s2]

\* A call without a critical indicator has been sent to manual review.
C2_Witness ==
    /\ FraudDone
    /\ critical_indicators(CallRules) = {}
    /\ fraud_call.result.decision = "REVIEW"

\* C3: whenever a rule indicator of the request has severity above 0.9 (as
\* for 5 or more previous fraud reports, or 10 or more failed logins) the
\* call returns DECLINE, whatever the ensemble score is.
C3_CriticalRuleDeclines ==
    FraudDone =>
        /\ critical_indicators(CallRules) # {}
              => fraud_call.result.decision = "DECLINE"
        /\ fraud_call.req.reports >= 5 => fraud_call.result.decision = "DECLINE"
        /\ fraud_call.req.failed >= 10 => fraud_call.result.decision = "DECLINE"

\* A call whose score alone would approve was declined by a critical rule.
C3_Witness ==
    /\ FraudDone
    /\ critical_indicators(CallRules) # {}
    /\ fraud_call.result.fraud_score < Lit(40)
    /\ fraud_call.result.decision = "DECLINE"

\* C10: the indicators of a result are ordered by non-increasing severity,
\* primary_indicator is the type of the first one, which has maximal
\* severity, and primary_indicator is None exactly when there is none.
C10_IndicatorsSorted ==
    FraudDone =>
        LET inds == fraud_call.result.indicators
            primary == fraud_call.result.primary_indicator
        IN  /\ \A i \in 1..Len(inds) - 1 : inds[i].severity >= inds[i + 1].severity
            /\ inds # << >> =>
                  /\ primary = inds[1].type
                  /\ \A i \in 1..Len(inds) : inds[1].severity >= inds[i].severity
            /\ (primary = "None") <=> (inds = << >>)

\* A result with at least three indicators whose most severe one was not
\* the first one generated.
C10_Witness ==
    /\ FraudDone
    /\ Len(fraud_call.result.indicators) >= 3
    /\ CallRules # << >>
    /\ fraud_call.result.indicators[1].severity > CallRules[1].severity
    /\ fraud_call.result.primary_indicator # CallRules[1].type

----------------------------------------------------------------------------
(* Claims about the price service                                          *)

PriceDone == price_call.pc = "done" /\ price_call.result.status = "ok"

\* The prices of the call that has returned, in price units.
Recommended == price_call.result.recommended_price

Current == price_call.req.current_price * CentUnits

Cost == price_call.req.cost * CentUnits

HalfCent == CentUnits \div 2

\* C4 as claimed: the recommended price never differs from the current
\* price by more than 20% of the current price, with or without
\* user-defined constraints.
C4_Original ==
    PriceDone =>
        100 * Abs(Recommended - Current) <= MAX_PRICE_CHANGE_PERCENT * Current

\* C4 as amended: for a request that sets no user-defined constraint the
\* recommended price differs from the current price by at most 20% of the
\* current price plus the half cent that rounding to cents can add.
C4_ChangeLimitWithoutConstraints ==
    (PriceDone /\ price_call.req.constraints = NoConstraints) =>
        100 * Abs(Recommended - Current)
            <= MAX_PRICE_CHANGE_PERCENT * Current + 100 * HalfCent

\* A request without constraints whose predictions lay beyond the limit:
\* the recommended price sits on the limit.
C4_Witness ==
    /\ PriceDone
    /\ price_call.req.constraints = NoConstraints
    /\ price_call.result.predictions > 0
    /\ Recommended # Current
    /\ 100 * Abs(Recommended - Current)
          >= MAX_PRICE_CHANGE_PERCENT * Current - 100 * HalfCent

C6_MinMaxPriceRespected ==
    PriceDone =>
        /\ price_call.req.constraints.min_price # 0 =>
              Recommended >= price_call.req.constraints.min_price * CentUnits
        /\ price_call.req.constraints.max_price # 0 =>
              Recommended <= price_call.req.constraints.max_price * CentUnits

\* C7 as claimed: with psychological_pricing the recommended price is a
\* whole number of cents that is congruent to 99 modulo 100.
C7_EndsIn99 ==
    (PriceDone /\ price_call.req.constraints.psychological_pricing) =>
        /\ Recommended % CentUnits = 0
        /\ (Recommended \div CentUnits) % 100 = 99

----------------------------------------------------------------------------
(* Claims about the bulk calls and about state across requests             *)

BulkDone == bulk.pc = "done"

\* C8 as claimed: a bulk call does not raise, it processes every item
\* whatever the other items do, and the returned dictionary has an entry
\* under the id of each item whose own call succeeded and none under the id
\* of an item whose call raised.
C8_BulkItemsIndependent ==
    BulkDone =>
        /\ ~bulk.raised
        /\ Len(bulk.outcomes) = Len(bulk.items)
        /\ \A j \in 1..Len(bulk.items) :
              /\ bulk.outcomes[j].status = "ok" =>
                    bulk.items[j].id \in DOMAIN bulk.results
              /\ bulk.outcomes[j].status = "raised" =>
                    bulk.items[j].id \notin DOMAIN bulk.results

\* The inputs on which the results are compared before and after a step.
FraudProbes == {BenignRequest, SevereRequest, RaisingTransaction}

PriceProbes ==
    { [current_price |-> p, cost |-> 50, inventory_level |-> 10,
       constraints |-> c] :
        p \in {0, 103, 1000, 2000},
        c \in {NoConstraints,
               [NoConstraints EXCEPT !.min_price = 900],
               [NoConstraints EXCEPT !.round_to_nearest = 5]} }

\* C9: once the models are loaded, no step of a service changes the
\* result of analyze_transaction or of optimize_product_price for any
\* input: what a request leaves behind in the service (the re-fitted
\* scalers) is nothing a later result depends on.
C9_NoStateAcrossRequests ==
    [][ /\ fraud.is_initialized =>
              \A p \in FraudProbes :
                  analyze_transaction(fraud', hash_seed', p)
                      = analyze_transaction(fraud, hash_seed, p)
        /\ pricer.is_initialized =>
              \A q \in PriceProbes :
                  optimize_product_price(pricer', q)
                      = optimize_product_price(pricer, q) ]_vars

\* Both services have handled requests that differ in the row the scalers
\* are fitted on, the scalers hold the row of the last one, and the price
\* service has models that predict.
C9_Witness ==
    /\ BulkDone
    /\ bulk.service = "price"
    /\ Len(bulk.outcomes) > PriceBatchSize
    /\ \E j \in 1..Len(bulk.outcomes) : bulk.outcomes[j].predictions > 0
    /\ \A m \in PriceModelNames : pricer.scalers[m] # Unfitted
    /\ fraud.is_initialized
    /\ \E j \in 1..Len(SupervisedModels) :
          fraud.scalers[SupervisedModels[j]] # Unfitted

----------------------------------------------------------------------------
(* Claims about the search service                                         *)

SearchDone == search.call.pc = "returned"

\* The backend the fixed priority names for the service as configured.
Priority ==
    IF search.elasticsearch_client THEN "elasticsearch"
    ELSE IF search.opensearch_client THEN "opensearch"
    ELSE "whoosh"

\* C11: SearchEngineService.search enters exactly one backend, the first
\* configured one in the order Elasticsearch, OpenSearch, Whoosh; it never
\* raises; when that backend fails the answer is the empty SearchResponse
\* (total_results 0, no products) for the same query, and no other backend
\* is entered.
C11_OneBackendNeverRaises ==
    SearchDone =>
        /\ ~search.call.raised
        /\ search.call.tried = <<Priority>>
        /\ search.call.response.query = search.call.query
        /\ search.call.failed =>
              /\ search.call.response.total_results = 0
              /\ search.call.response.products = {}

\* Elasticsearch was chosen and failed while the index directory held a
\* matching document: the answer is empty and Whoosh was not asked.
C11_Witness ==
    /\ SearchDone
    /\ search.elasticsearch_client
    /\ search.call.failed
    /\ search.whoosh_index = "index"
    /\ \E p \in search.whoosh_docs : Matches(search.call.query, p)
    /\ search.call.tried = <<"elasticsearch">>
    /\ search.call.response.products = {}

\* C15: after POST /api/v1/indexing/product answered indexed: true for
\* some products, a later POST /api/v1/search whose query matches their
\* names answers 200 with at least every such product in products and in
\* total_results.
C15_IndexedProductsAreFound ==
    (SearchDone /\ search.call.via = "endpoint") =>
        LET expected == { p \in Products :
                            /\ p.id \in search.acknowledged
                            /\ Matches(search.call.query, p) }
        IN  /\ search.call.status = 200
            /\ expected \subseteq search.call.response.products
            /\ search.call.response.total_results >= Cardinality(expected)

----------------------------------------------------------------------------
(* Claims about the health routes                                          *)

HealthDone(endpoint) ==
    health.call.pc = "returned" /\ health.call.endpoint = endpoint

C17_ReadyIffDatabaseAndRedis ==
    HealthDone("ready") =>
        /\ health.call.code \in {200, 503}
        /\ (health.call.code = 200) = (health.call.status = "ready")
        /\ health.call.status = "ready" <=>
              database_health_check(health) /\ redis_health_check(health)
        /\ ~health.engine => health.call.code = 503

\* Ready was answered while the Service Bus check fails.
C17_Witness ==
    /\ HealthDone("ready")
    /\ health.call.status = "ready"
    /\ ~service_bus_health_check(health)

----------------------------------------------------------------------------
(* Claims about the event contracts                                        *)

\* C14: for every event class E and instance e, deserialize_event(
\* serialize_event(e), E) equals e: every datetime field of e (occurred_at,
\* order_date, estimated_delivery, the *_at fields) is a datetime again and
\* the items of an OrderCreatedEvent are OrderItemEvent objects again.
C14_EventRoundTrip ==
    event.pc = "deserialized" =>
        /\ PyEq(event.back, event.e)
        /\ \A k \in DOMAIN event.e.v :
              event.e.v[k].t = "datetime" => event.back.v[k].t = "datetime"
        /\ <<"items">> \in DOMAIN event.e.v =>
              \A i \in DOMAIN event.back.v[<<"items">>].v :
                  event.back.v[<<"items">>].v[i].t = "OrderItemEvent"

\* The classes whose datetime fields all end in _at do round-trip.
EventRoundTripOfAtFields ==
    (event.pc = "deserialized"
        /\ event.e.t \in {"DomainEvent", "PaymentProcessedEvent"}) =>
        PyEq(event.back, event.e)

----------------------------------------------------------------------------
(* Claims about the recommendation cache                                   *)

\* The key the claim names: (user_id, category or 'all', count).
ClaimedKey(ask) ==
    <<ask.user_id, IF ask.category = "None" THEN "all" ELSE ask.category,
      ask.count>>

RecommendationsDone(s) == reco.request[s].pc = "returned"

\* C12 as stated: with refresh_cache false and an unexpired entry stored
\* under the key, the stored response is returned and nothing is computed
\* or written; with refresh_cache true, or without an entry, the
\* recommendations are computed and the entry of the key is overwritten
\* with the new response, TTL 300.
C12_Original ==
    \A s \in RequestSlots :
        RecommendationsDone(s) =>
            LET call == reco.request[s]
            IN  /\ (call.stored # NoEntry /\ ~call.refresh_cache) =>
                      /\ call.response = [call.stored EXCEPT !.ttl = 0]
                      /\ ~call.computed
                      /\ call.written = NoEntry
                /\ (call.stored = NoEntry \/ call.refresh_cache) =>
                      /\ call.computed
                      /\ call.written_key = ClaimedKey(call.ask)
                      /\ call.written = [call.response EXCEPT !.ttl = 300]

\* C12, amended: an entry counts as found only when Redis can be read (a
\* missing client or a failing read is a miss).  A found entry without
\* refresh_cache is returned, nothing is computed or written.  Otherwise
\* the recommendations are computed; if that raises the answer is 500 and
\* nothing is written; if it succeeds the response is returned, and the
\* entry of the key (user_id, category or 'all', count) is overwritten with
\* it, TTL 300, exactly when Redis accepts the write.
C12_CacheFirst ==
    \A s \in RequestSlots :
        RecommendationsDone(s) =>
            LET call == reco.request[s]
            IN  /\ call.hit => call.stored # NoEntry
                /\ (call.hit /\ ~call.refresh_cache) =>
                      /\ call.status = 200
                      /\ call.response = [call.stored EXCEPT !.ttl = 0]
                      /\ ~call.computed
                      /\ call.written = NoEntry
                /\ (~call.hit \/ call.refresh_cache) =>
                      /\ call.computed
                      /\ call.status \in {200, 500}
                      /\ call.status = 500 => call.written = NoEntry
                      /\ call.status = 200 =>
                            /\ call.response.made_for = ClaimedKey(call.ask)
                            /\ call.response.cache_ttl = 300
                            /\ call.redis_at_write =>
                                  /\ call.written_key = ClaimedKey(call.ask)
                                  /\ call.written =
                                        [call.response EXCEPT !.ttl = 300]
                            /\ ~call.redis_at_write =>
                                  call.written = NoEntry

\* A request with refresh_cache found an entry, computed anyway and
\* overwrote it with a newer response.
C12_Witness ==
    \E s \in RequestSlots :
        /\ RecommendationsDone(s)
        /\ reco.request[s].refresh_cache
        /\ reco.request[s].hit
        /\ reco.request[s].computed
        /\ reco.request[s].written # NoEntry
        /\ reco.request[s].written.generation
              > reco.request[s].stored.generation

\* C13: once a feedback call (or an OrderCreated event) for a user has
\* returned, no recommendation request of that user that starts later is
\* answered from a cache entry computed before that feedback.  Stated for
\* the runs in which no cache operation failed.
C13_NoStaleEntryAfterFeedback ==
    \A s \in RequestSlots :
        (/\ RecommendationsDone(s)
         /\ ~reco.cache_errors
         /\ reco.request[s].hit
         /\ ~reco.request[s].refresh_cache) =>
            reco.request[s].response.generation >= reco.request[s].since

----------------------------------------------------------------------------
(* Claims about the collaborative filtering engine                         *)

CfDone == cf.call.pc = "returned"

\* The cases in which the claim expects the popularity fallback.
FallbackExpected ==
    \/ ~cf.engine.is_trained
    \/ cf.call.user_id \notin Known(cf.engine.user_mapper)
    \/ cf.call.als.raises

Tagged(result, algorithm) ==
    \A i \in DOMAIN result : result[i].algorithm = algorithm

\* C19: get_recommendations never raises and returns at most count items;
\* it returns the popularity fallback exactly when the model is not
\* trained, the user is not in the training data, or the ALS computation
\* raises, and otherwise only items tagged collaborative_filtering.
C19_FallbackExactlyWhen ==
    CfDone =>
        /\ Len(cf.call.result) <= cf.call.count
        /\ FallbackExpected =>
              /\ cf.call.result # <<>>
              /\ Tagged(cf.call.result, "popularity_fallback")
        /\ ~FallbackExpected =>
              Tagged(cf.call.result, "collaborative_filtering")

\* The model recommended two known items where one was asked for: one
\* collaborative filtering item came back.
C19_Witness ==
    /\ CfDone
    /\ ~FallbackExpected
    /\ cf.call.count = 1
    /\ Len(cf.call.als.items) = 2
    /\ Len(cf.call.result) = 1
    /\ Tagged(cf.call.result, "collaborative_filtering")

\* C20: after train(D) and incremental_update(N), every user and item of
\* D is still in user_mapper / item_mapper, together with those of N.
C20_UpdateKeepsKnownUsers ==
    (cf.trained_on # NoData /\ cf.updates > 0) =>
        /\ cf.trained_on.users \cup cf.updated_with.users
              \subseteq Known(cf.engine.user_mapper)
        /\ cf.trained_on.items \cup cf.updated_with.items
              \subseteq Known(cf.engine.item_mapper)

----------------------------------------------------------------------------
(* Claims about the batching of the bulk calls                             *)

InFlight == gather.started - gather.finished

\* The first item of the batch that the item started last belongs to.
BatchOfLastStarted ==
    LET size == BatchSizeOf(gather.service)
    IN  size * ((gather.started - 1) \div size)

\* C18: during bulk_optimize_prices at most 10, and during
\* bulk_analyze_transactions at most 20, per-item analyses are in flight
\* at any time, and no item of batch k+1 is started before every item of
\* batch k has finished, successfully or with an exception.
C18_BatchesBoundTheTasksInFlight ==
    gather.pc # "idle" =>
        /\ gather.service = "price" => InFlight <= 10
        /\ gather.service = "fraud" => InFlight <= 20
        /\ gather.started > 0 => gather.finished >= BatchOfLastStarted

\* A whole fraud batch is in flight, one of the first batch's tasks having
\* raised: the second batch of a list of more than twenty items.
C18_Witness ==
    /\ gather.service = "fraud"
    /\ gather.i = FraudBatchSize
    /\ gather.failed > 0
    /\ gather.started > gather.i
    /\ InFlight = gather.n - gather.i

----------------------------------------------------------------------------
(* Claims about the ensemble score as a function of the evidence           *)

IndicatorsOf(scored) == { scored.rules[i] : i \in 1..Len(scored.rules) }

\* Both analyses have returned a score.
BothScored ==
    /\ ensemble.pc = "second"
    /\ ~ensemble.first.raised
    /\ ~ensemble.second.raised

\* The component scores in which two analyses differ.
Differing(a, b) ==
    { i \in 1..Len(a.components) : a.components[i] # b.components[i] }

\* `more` has every rule indicator of `less` and at least one further,
\* every component score being the same.
AdditionalRule(less, more) ==
    /\ Differing(less, more) = {}
    /\ IndicatorsOf(less) \subseteq IndicatorsOf(more)
    /\ IndicatorsOf(less) # IndicatorsOf(more)

\* `more` has one component score above that of `less`, everything else
\* being the same.
RaisedComponent(less, more) ==
    /\ less.rules = more.rules
    /\ Cardinality(Differing(less, more)) = 1
    /\ \A i \in Differing(less, more) : more.components[i] > less.components[i]

\* Raising a single component score never lowers the fraud score.
RaisedComponentNeverLowers ==
    BothScored =>
        /\ RaisedComponent(ensemble.first, ensemble.second)
              => ensemble.second.fraud_score >= ensemble.first.fraud_score
        /\ RaisedComponent(ensemble.second, ensemble.first)
              => ensemble.first.fraud_score >= ensemble.second.fraud_score

\* C21: with all other component scores fixed, a transaction that
\* triggers an additional fraud rule (a superset of the rule indicators)
\* never gets a lower fraud score than the same transaction without that
\* rule, and raising any single component score never lowers the fraud
\* score.
C21_ScoreMonotoneInEvidence ==
    BothScored =>
        /\ AdditionalRule(ensemble.first, ensemble.second)
              => ensemble.second.fraud_score >= ensemble.first.fraud_score
        /\ AdditionalRule(ensemble.second, ensemble.first)
              => ensemble.first.fraud_score >= ensemble.second.fraud_score
        /\ RaisedComponent(ensemble.first, ensemble.second)
              => ensemble.second.fraud_score >= ensemble.first.fraud_score
        /\ RaisedComponent(ensemble.second, ensemble.first)
              => ensemble.first.fraud_score >= ensemble.second.fraud_score

====
